---- MODULE Spec2Model ----
(***************************************************************************)
(* A model of the photo organiser (kuimouse-svg/my-photo):                 *)
(*   - date resolution (formatToISO, extractDateFromFilename,              *)
(*     parseSmartDate) as operators over character sequences;              *)
(*   - the App component's in-memory state (photos, diaryNotes), the       *)
(*     IndexedDB stores behind dbService (photos, notes) and the           *)
(*     asynchronous handlers that connect them, one action per handler     *)
(*     step between two suspension points.                                 *)
(* Strings the code scans or formats (file names, date strings) are        *)
(* sequences of one-character strings; the Japanese UI literals are        *)
(* replaced by ASCII names, each quoted beside its definition.             *)
(***************************************************************************)
EXTENDS Integers, Sequences, FiniteSets, TLC

(***************************************************************************)
(* Bounds of the model.                                                    *)
(***************************************************************************)
\* handler invocations (uploads, relocations, deletions, note edits) per run
MaxOps == 3

(***************************************************************************)
(* Strings as character sequences.                                         *)
(***************************************************************************)
Digits == {"0", "1", "2", "3", "4", "5", "6", "7", "8", "9"}

IsDigit(c) == c \in Digits

DigitVal(c) ==
  CASE c = "0" -> 0 [] c = "1" -> 1 [] c = "2" -> 2 [] c = "3" -> 3
    [] c = "4" -> 4 [] c = "5" -> 5 [] c = "6" -> 6 [] c = "7" -> 7
    [] c = "8" -> 8 [] c = "9" -> 9

DigitChar(n) ==
  CASE n = 0 -> "0" [] n = 1 -> "1" [] n = 2 -> "2" [] n = 3 -> "3"
    [] n = 4 -> "4" [] n = 5 -> "5" [] n = 6 -> "6" [] n = 7 -> "7"
    [] n = 8 -> "8" [] n = 9 -> "9"

\* parseInt(s, 10) of a run of decimal digits
RECURSIVE ParseInt(_)
ParseInt(s) ==
  IF Len(s) = 0 THEN 0
  ELSE 10 * ParseInt(SubSeq(s, 1, Len(s) - 1)) + DigitVal(s[Len(s)])

\* String(n) / `${n}` of a natural number
RECURSIVE NumToStr(_)
NumToStr(n) ==
  IF n < 10 THEN <<DigitChar(n)>>
  ELSE NumToStr(n \div 10) \o <<DigitChar(n % 10)>>

\* variant: no padding
PadStart2_None(s) == s

\* s.padStart(2, '0')
PadStart2(s) == IF Len(s) < 2 THEN <<"0">> \o s ELSE s

\* s.includes(sub)
Includes(s, sub) ==
  \E i \in 1..Len(s) : i + Len(sub) - 1 <= Len(s) /\ SubSeq(s, i, i + Len(sub) - 1) = sub

\* the UTF-16 code units of the characters that occur, in ascending order
CodeUnits ==
  <<"-", ".", "/", "0", "1", "2", "3", "4", "5", "6", "7", "8", "9",
    "A", "B", "C", "D", "E", "F", "G", "H", "I", "J", "K", "L", "M",
    "N", "O", "P", "Q", "R", "S", "T", "U", "V", "W", "X", "Y", "Z", "_",
    "a", "b", "c", "d", "e", "f", "g", "h", "i", "j", "k", "l", "m",
    "n", "o", "p", "q", "r", "s", "t", "u", "v", "w", "x", "y", "z">>

\* s.charCodeAt(i), up to an order-preserving renumbering
CharCode(c) == CHOOSE i \in 1..Len(CodeUnits) : CodeUnits[i] = c

\* a < b on strings: by the first position where they differ, a proper prefix first
RECURSIVE StrLess(_, _)
StrLess(a, b) ==
  IF Len(b) = 0 THEN FALSE
  ELSE IF Len(a) = 0 THEN TRUE
  ELSE IF a[1] = b[1] THEN StrLess(Tail(a), Tail(b))
  ELSE CharCode(a[1]) < CharCode(b[1])

\* a <= b on strings
StrLeq(a, b) == a = b \/ StrLess(a, b)

\* s.replace(/[:/]/g, '-')
ReplaceSeparators(s) == [i \in 1..Len(s) |-> IF s[i] \in {":", "/"} THEN "-" ELSE s[i]]

\* s.split(' ')[0]
BeforeSpace(s) ==
  IF \E i \in 1..Len(s) : s[i] = " "
  THEN LET i == CHOOSE k \in 1..Len(s) : s[k] = " " /\ \A j \in 1..(k - 1) : s[j] # " "
       IN SubSeq(s, 1, i - 1)
  ELSE s

\* s.split('-')
RECURSIVE SplitDash(_)
SplitDash(s) ==
  IF \E i \in 1..Len(s) : s[i] = "-"
  THEN LET i == CHOOSE k \in 1..Len(s) : s[k] = "-" /\ \A j \in 1..(k - 1) : s[j] # "-"
       IN <<SubSeq(s, 1, i - 1)>> \o SplitDash(SubSeq(s, i + 1, Len(s)))
  ELSE <<s>>

AllDigits(s) == \A i \in 1..Len(s) : IsDigit(s[i])

(***************************************************************************)
(* JavaScript values the code tests for.                                   *)
(***************************************************************************)
\* null / undefined / '' where the code expects a string: all three are falsy
NULL == <<>>
\* undefined where the code expects a plain (uninterpreted) string
UNDEFINED == "undefined"
\* a Date whose getTime() is NaN
INVALID_DATE == [invalid |-> TRUE]

(***************************************************************************)
(* Dates.  A Date is the record of its local calendar fields, as the code  *)
(* reads them: getFullYear(), getMonth() (0..11), getDate().               *)
(***************************************************************************)
MkDate(y, m0, d) == [year |-> y, month |-> m0, date |-> d]

IsLeap(y) == (y % 4 = 0 /\ y % 100 # 0) \/ y % 400 = 0

\* days of month m0 (0..11) of year y
DaysInMonth(y, m0) ==
  IF m0 = 1 THEN (IF IsLeap(y) THEN 29 ELSE 28)
  ELSE IF m0 \in {3, 5, 8, 10} THEN 30 ELSE 31

\* the calendar day before d
PrevDay(d) ==
  IF d.date > 1 THEN MkDate(d.year, d.month, d.date - 1)
  ELSE IF d.month > 0 THEN MkDate(d.year, d.month - 1, DaysInMonth(d.year, d.month - 1))
  ELSE MkDate(d.year - 1, 11, 31)

\* day `day` of month m0, days past the month's end rolling into the next month
RollOver(y, m0, day) ==
  IF day <= DaysInMonth(y, m0) THEN MkDate(y, m0, day)
  ELSE IF m0 < 11 THEN MkDate(y, m0 + 1, day - DaysInMonth(y, m0))
  ELSE MkDate(y + 1, 0, day - DaysInMonth(y, m0))

(***************************************************************************)
(* The host environment of a session: the time zone the Date getters use   *)
(* and how the engine's Date parser treats strings outside the ISO format. *)
(*   west    : the local zone is behind UTC, so midnight UTC is the        *)
(*             previous local day;                                         *)
(*   lenient : the parser accepts the non-ISO form Y-M-D (as local time)   *)
(*             and ISO days 29..31 beyond the month's end (rolling over);  *)
(*             a strict parser answers Invalid Date for both.              *)
(***************************************************************************)
Envs == [west : BOOLEAN, lenient : BOOLEAN]

\* the environments the sessions of the state machine run in
SessionEnvs == {[west |-> FALSE, lenient |-> TRUE], [west |-> TRUE, lenient |-> FALSE]}

\* new Date(str) for the strings parseSmartDate builds
NewDate(str, env) ==
  LET parts == SplitDash(str) IN
  IF Len(parts) # 3 \/ \E i \in 1..3 : Len(parts[i]) = 0 \/ ~AllDigits(parts[i])
  THEN INVALID_DATE
  ELSE
    LET y == ParseInt(parts[1])
        m == ParseInt(parts[2])
        d == ParseInt(parts[3])
        iso == Len(parts[1]) = 4 /\ Len(parts[2]) = 2 /\ Len(parts[3]) = 2
    IN IF m < 1 \/ m > 12 \/ d < 1 \/ d > 31 \/ Len(parts[1]) # 4 THEN INVALID_DATE
       ELSE IF iso
       THEN \* date-only ISO form: midnight UTC
            IF d > DaysInMonth(y, m - 1) /\ ~env.lenient THEN INVALID_DATE
            ELSE IF env.west THEN PrevDay(RollOver(y, m - 1, d))
            ELSE RollOver(y, m - 1, d)
       ELSE \* any other form is implementation-defined: local time, or invalid
            IF env.lenient THEN RollOver(y, m - 1, d) ELSE INVALID_DATE

(***************************************************************************)
(* Date resolution (App.tsx).                                              *)
(***************************************************************************)
formatToISO(date) ==
  LET y == date.year
      m == PadStart2(NumToStr(date.month + 1))
      d == PadStart2(NumToStr(date.date))
  IN NumToStr(y) \o <<"-">> \o m \o <<"-">> \o d

\* whether /(\d{4})(\d{2})(\d{2})/ matches at position i
DigitRunAt(s, i) == i + 7 <= Len(s) /\ \A k \in 0..7 : IsDigit(s[i + k])

\* filename.match(...): the leftmost match, or NULL
RegexMatch(filename) ==
  IF \E i \in 1..Len(filename) : DigitRunAt(filename, i)
  THEN LET i == CHOOSE k \in 1..Len(filename) :
                  DigitRunAt(filename, k) /\ \A j \in 1..(k - 1) : ~DigitRunAt(filename, j)
       IN <<SubSeq(filename, i, i + 3), SubSeq(filename, i + 4, i + 5),
            SubSeq(filename, i + 6, i + 7)>>
  ELSE NULL

extractDateFromFilename(filename) ==
  LET match == RegexMatch(filename) IN
  IF match # NULL
  THEN LET y == ParseInt(match[1])
           m == ParseInt(match[2])
           d == ParseInt(match[3])
       IN IF y > 1980 /\ y < 2100 /\ m >= 1 /\ m <= 12 /\ d >= 1 /\ d <= 31
          THEN NumToStr(y) \o <<"-">> \o PadStart2(NumToStr(m)) \o <<"-">> \o PadStart2(NumToStr(d))
          ELSE NULL
  ELSE NULL

STR_UNKNOWN == <<"U", "n", "k", "n", "o", "w", "n">>

\* variant: the service date is tried before the file name
parseSmartDate_ServiceFirst(filename, aiDateStr, fileDate, env) ==
  LET parsed == IF aiDateStr # NULL
                THEN NewDate(BeforeSpace(ReplaceSeparators(aiDateStr)), env)
                ELSE INVALID_DATE
  IN IF parsed # INVALID_DATE /\ parsed.year > 1980 THEN formatToISO(parsed)
     ELSE IF extractDateFromFilename(filename) # NULL THEN extractDateFromFilename(filename)
     ELSE formatToISO(fileDate)

parseSmartDate(filename, aiDateStr, fileDate, env) ==
  LET filenameDate == extractDateFromFilename(filename) IN
  IF filenameDate # NULL THEN filenameDate
  ELSE IF aiDateStr # NULL
          /\ ~Includes(aiDateStr, <<".", ".">>) /\ aiDateStr # STR_UNKNOWN
  THEN LET standardized == BeforeSpace(ReplaceSeparators(aiDateStr))
           parsed == NewDate(standardized, env)
       IN IF parsed # INVALID_DATE /\ parsed.year > 1980
          THEN formatToISO(parsed)
          ELSE formatToISO(fileDate)
  ELSE formatToISO(fileDate)

(***************************************************************************)
(* Files the user can pick.  lastModified is an abstract time stamp;       *)
(* DateOfStamp is new Date(stamp) read through the local getters.          *)
(***************************************************************************)
NAME_TRIP == <<"2", "0", "2", "4", "0", "3", "0", "5", "_", "t", "r", "i", "p", ".", "j", "p", "g">>
NAME_PHOTO == <<"p", "h", "o", "t", "o", ".", "j", "p", "g">>

FILE_TRIP == [name |-> NAME_TRIP, size |-> 1, lastModified |-> 1, type |-> "image/jpeg"]
FILE_PHOTO == [name |-> NAME_PHOTO, size |-> 2, lastModified |-> 2, type |-> "image/jpeg"]

Files == {FILE_TRIP, FILE_PHOTO}

DateOfStamp(stamp) == IF stamp = 1 THEN MkDate(2024, 0, 1) ELSE MkDate(2023, 11, 31)

\* `photo-${file.name}-${file.size}-${file.lastModified}`
PhotoId(file) == <<"photo", file.name, file.size, file.lastModified>>

\* URL.createObjectURL(file)
ObjectURL(file) == <<"blob", file.name>>

Ids == {PhotoId(f) : f \in Files}

(***************************************************************************)
(* Literals of the user interface.                                         *)
(***************************************************************************)
LOC_ANALYZING == "locating..."            \* "特定中..."
DESC_ANALYZING == "Gemini AI is analyzing" \* "Gemini AIが解析しています"
LOC_FAILED == "location failed"           \* "特定失敗"
DESC_ERROR == "Error"
LOC_RESOLVING == "resolving place name..." \* "地点名を特定中..."
LOC_UNIDENTIFIED == "could not identify"  \* "特定できませんでした"

(***************************************************************************)
(* The inference service (geminiService.ts), seen from its callers.        *)
(* analyzeImage never throws: its catch returns a fixed fallback result    *)
(* dated today in the ja-JP format (no zero padding).                      *)
(***************************************************************************)
\* A latitude or longitude is a fixed-point number: the integer n stands for
\* n * 10^-7 degrees, one digit more than toFixed(6) keeps.
Degree == 10000000

DATE_SERVICE == <<"2", "0", "2", "4", "/", "0", "3", "/", "1", "0">>
DATE_TODAY_JA == <<"2", "0", "2", "6", "/", "1", "1", "/", "3">>

RESULT_OK ==
  [locationName |-> "Enoshima", country |-> "Japan", latitude |-> 35 * Degree,
   longitude |-> 139 * Degree,
   date |-> DATE_SERVICE, description |-> "beach"]

\* the object analyzeImage's catch returns
RESULT_FALLBACK ==
  [locationName |-> "unknown place", country |-> "unknown", latitude |-> 0, longitude |-> 0,
   date |-> DATE_TODAY_JA, description |-> "analysis failed"]

AnalysisResults == {RESULT_OK, RESULT_FALLBACK}

\* what identifyLocation resolves to: the model's text, or its catch's literal
LocationNames == {"Kamakura", LOC_UNIDENTIFIED}

\* where a marker or a tray photo can be dropped
DropPoints == {<<10 * Degree, 20 * Degree>>, <<30 * Degree, 40 * Degree>>}

\* what the user types into a note
NoteTexts == {"memo"}

(***************************************************************************)
(* State.                                                                  *)
(*   photos     : App's photos state, the in-memory list of records        *)
(*   diaryNotes : App's diaryNotes state, photo id -> note text            *)
(*   dbPhotos   : rows of the IndexedDB object store "photos"              *)
(*   dbNotes    : rows of the IndexedDB object store "notes"               *)
(*   dbQueue    : dbService requests issued and not yet executed; each     *)
(*                opens the database and then runs one transaction, and    *)
(*                IndexedDB serves them in the order they were issued      *)
(*   tasks      : handler invocations suspended at an await, by number     *)
(*   nOps       : handler invocations so far                               *)
(*   env        : the session's host environment                           *)
(*   lastOp     : the handler step taken last (for stating the claims)     *)
(*   resolve    : the date-resolution call of specification SpecDate       *)
(*   selectedPhotoForModal : App's state of that name, the record shown in *)
(*                the modal, or NULL                                       *)
(*   focusedPhoto : App's state of that name, the record the map is        *)
(*                centred on, or NULL                                      *)
(***************************************************************************)
VARIABLES photos, diaryNotes, dbPhotos, dbNotes, dbQueue, tasks, nOps, env, lastOp, resolve,
          selectedPhotoForModal, focusedPhoto

vars == <<photos, diaryNotes, dbPhotos, dbNotes, dbQueue, tasks, nOps, env, lastOp, resolve,
          selectedPhotoForModal, focusedPhoto>>

(***************************************************************************)
(* Helpers over records and lists.                                         *)
(***************************************************************************)
\* { ...a, ...b }
Spread(a, b) == [f \in DOMAIN a \cup DOMAIN b |-> IF f \in DOMAIN b THEN b[f] ELSE a[f]]

\* prev.findIndex(p => p.id === id), 0 for -1
FindIndex(prev, id) ==
  IF \E i \in 1..Len(prev) : prev[i].id = id
  THEN CHOOSE i \in 1..Len(prev) : prev[i].id = id /\ \A j \in 1..(i - 1) : prev[j].id # id
  ELSE 0

\* variant: the filter keeps every record
FilterOut_KeepAll(prev, id) == prev

\* prev.filter(p => p.id !== id)
RECURSIVE FilterOut(_, _)
FilterOut(prev, id) ==
  IF Len(prev) = 0 THEN <<>>
  ELSE IF Head(prev).id = id THEN FilterOut(Tail(prev), id)
  ELSE <<Head(prev)>> \o FilterOut(Tail(prev), id)

\* variant: the record is dropped instead of patched
PatchById_Drop(prev, id, patch) == FilterOut(prev, id)

\* prev.map(p => p.id === id ? { ...p, ...patch } : p)
PatchById(prev, id, patch) ==
  [i \in 1..Len(prev) |-> IF prev[i].id = id THEN Spread(prev[i], patch) ELSE prev[i]]

\* variant: the map replaces every record
ReplaceById_All(prev, id, replacement) == [i \in 1..Len(prev) |-> replacement]

\* prev.map(p => p.id === id ? replacement : p)
ReplaceById(prev, id, replacement) ==
  [i \in 1..Len(prev) |-> IF prev[i].id = id THEN replacement ELSE prev[i]]

PhotoIds(list) == {list[i].id : i \in 1..Len(list)}

RowIds(rows) == {r.id : r \in rows}

\* variant: the record is always appended
Upsert_Append(prev, photo) == Append(prev, photo)

\* variant: the incoming record replaces the old one without the merge
Upsert_Overwrite(prev, photo) ==
  IF FindIndex(prev, photo.id) > 0
  THEN [prev EXCEPT ![FindIndex(prev, photo.id)] = photo]
  ELSE Append(prev, photo)

\* the setPhotos updater of addOrUpdatePhoto
Upsert(prev, photo) ==
  LET existingIndex == FindIndex(prev, photo.id) IN
  IF existingIndex > 0
  THEN [prev EXCEPT ![existingIndex] = Spread(prev[existingIndex], photo)]
  ELSE Append(prev, photo)

\* { ...prev, [photoId]: note }
SetNote(prev, photoId, note) ==
  [k \in DOMAIN prev \cup {photoId} |-> IF k = photoId THEN note ELSE prev[k]]

\* variant: the note map is left as it is
DeleteNote_Keep(prev, photoId) == prev

\* delete next[photoId]
DeleteNote(prev, photoId) == [k \in DOMAIN prev \ {photoId} |-> prev[k]]

(***************************************************************************)
(* dbService: what a request does to the stores when it is executed.       *)
(***************************************************************************)
\* variant: the record is stored as given, url included
DataToSave_KeepUrl(photo) == photo

\* const dataToSave = { ...photo }; delete dataToSave.url
DataToSave(photo) == [f \in DOMAIN photo \ {"url"} |-> photo[f]]

\* variant: a row whose key is already in the store is not written (store.add)
StorePut_KeepOld(rows, row) == IF row.id \in RowIds(rows) THEN rows ELSE rows \cup {row}

\* variant: the row is added beside the row of the same key
StorePut_Add(rows, row) == rows \cup {row}

\* store.put(row) on a store with keyPath "id"
StorePut(rows, row) == {r \in rows : r.id # row.id} \cup {row}

\* store.delete(key)
StoreDelete(rows, key) == {r \in rows : r.id # key}

\* the key of a row as the string processFile builds:
\* `photo-${file.name}-${file.size}-${file.lastModified}`
IdString(id) ==
  <<"p", "h", "o", "t", "o", "-">> \o id[2] \o <<"-">> \o NumToStr(id[3])
    \o <<"-">> \o NumToStr(id[4])

\* store.getAll(): the rows in ascending order of their keys
RECURSIVE GetAll(_)
GetAll(rows) ==
  IF rows = {} THEN <<>>
  ELSE LET first == CHOOSE r \in rows :
                      \A o \in rows : ~StrLess(IdString(o.id), IdString(r.id))
       IN <<first>> \o GetAll(rows \ {first})

\* URL.createObjectURL(p.fileBlob) of getAllPhotos: every call makes a new URL,
\* so it is not the one processFile made for the same file
ObjectURLOnLoad(fileBlob) == <<"blob", fileBlob.name, "loaded">>

\* variant: the rows are returned as they are stored
GetAllPhotos_Bare(rows) == GetAll(rows)

\* getAllPhotos: request.result.map(p => ({ ...p, url: ... }))
GetAllPhotos(rows) ==
  LET result == GetAll(rows) IN
  [i \in 1..Len(result) |->
     Spread(result[i],
            [url |-> IF "fileBlob" \in DOMAIN result[i]
                     THEN ObjectURLOnLoad(result[i].fileBlob)
                     ELSE <<>>])]

\* getAllNotes: request.result.forEach(item => { notes[item.id] = item.note })
RECURSIVE NotesOf(_)
NotesOf(result) ==
  IF Len(result) = 0 THEN <<>>
  ELSE SetNote(NotesOf(SubSeq(result, 1, Len(result) - 1)),
               result[Len(result)].id, result[Len(result)].note)

GetAllNotes(rows) == NotesOf(GetAll(rows))

SavePhotoRequest(photo, tid) == [op |-> "savePhoto", photo |-> photo, tid |-> tid]
DeletePhotoRequest(photoId, tid) == [op |-> "deletePhoto", id |-> photoId, tid |-> tid]
SaveNoteRequest(photoId, note) == [op |-> "saveNote", id |-> photoId, note |-> note]

\* a handler step: its name, the photo id it is about, whether it succeeded (or was
\* confirmed), the invocation it belongs to (0: none) and the value it was given
Op(name, id, ok, tid, arg) == [op |-> name, id |-> id, ok |-> ok, tid |-> tid, arg |-> arg]

EndTask(tid) == [t \in DOMAIN tasks \ {tid} |-> tasks[t]]

StartTask(tid, task) == [t \in DOMAIN tasks \cup {tid} |-> IF t = tid THEN task ELSE tasks[t]]

(***************************************************************************)
(* Initial state: the session has loaded an empty database.                *)
(***************************************************************************)
RESOLVE_IDLE == [pc |-> "idle"]

Init ==
  /\ photos = <<>>
  /\ diaryNotes = <<>>
  /\ dbPhotos = {}
  /\ dbNotes = {}
  /\ dbQueue = <<>>
  /\ tasks = <<>>
  /\ nOps = 0
  /\ env \in SessionEnvs
  /\ lastOp = Op("init", <<>>, TRUE, 0, <<>>)
  /\ resolve = RESOLVE_IDLE
  /\ selectedPhotoForModal = NULL
  /\ focusedPhoto = NULL

(***************************************************************************)
(* processFile (App.tsx): the records it builds.                           *)
(***************************************************************************)
\* extractDateFromFilename(file.name) || formatToISO(fileDate)
InitialDate(filename, fileDate) ==
  LET fromName == extractDateFromFilename(filename) IN
  IF fromName # NULL THEN fromName ELSE formatToISO(fileDate)

\* variant: the provisional record is not marked as processing
NewPhoto_NotProcessing(file) ==
  [id |-> PhotoId(file), url |-> ObjectURL(file), name |-> file.name,
   locationName |-> LOC_ANALYZING, latitude |-> 0, longitude |-> 0,
   date |-> InitialDate(file.name, DateOfStamp(file.lastModified)),
   description |-> DESC_ANALYZING, isProcessing |-> FALSE, manuallyPlaced |-> FALSE,
   fileBlob |-> file]

NewPhoto(file) ==
  [id |-> PhotoId(file), url |-> ObjectURL(file), name |-> file.name,
   locationName |-> LOC_ANALYZING, latitude |-> 0, longitude |-> 0,
   date |-> InitialDate(file.name, DateOfStamp(file.lastModified)),
   description |-> DESC_ANALYZING, isProcessing |-> TRUE, manuallyPlaced |-> FALSE,
   fileBlob |-> file]

\* variant: the enriched record keeps the processing flag
UpdatedPhoto_StillProcessing(file, result, e) ==
  [id |-> PhotoId(file), url |-> ObjectURL(file), name |-> file.name, fileBlob |-> file,
   locationName |-> result.locationName,
   country |-> result.country,
   latitude |-> result.latitude,
   longitude |-> result.longitude,
   date |-> parseSmartDate(file.name, result.date, DateOfStamp(file.lastModified), e),
   description |-> result.description,
   isProcessing |-> TRUE,
   manuallyPlaced |-> FALSE]

UpdatedPhoto(file, result, e) ==
  [id |-> PhotoId(file), url |-> ObjectURL(file), name |-> file.name, fileBlob |-> file,
   locationName |-> result.locationName,
   country |-> result.country,
   latitude |-> result.latitude,
   longitude |-> result.longitude,
   date |-> parseSmartDate(file.name, result.date, DateOfStamp(file.lastModified), e),
   description |-> result.description,
   isProcessing |-> FALSE,
   manuallyPlaced |-> FALSE]

\* the patch of processFile's catch
FailedPatch == [isProcessing |-> FALSE, locationName |-> LOC_FAILED, description |-> DESC_ERROR]

\* e.target.result.split(',')[1] is the empty string for an empty file
ReaderYieldsData(file) == file.size > 0

(***************************************************************************)
(* updatePhotoLocation (App.tsx): the records it builds.                   *)
(***************************************************************************)
RelocatedPhoto(photo, lat, lng) ==
  Spread(photo, [latitude |-> lat, longitude |-> lng, locationName |-> LOC_RESOLVING,
                 isProcessing |-> TRUE, manuallyPlaced |-> TRUE])

\* variant: the name is set and isProcessing is left on
FinalUpdate_StillProcessing(updated, aiLocationName) ==
  Spread(updated, [locationName |-> aiLocationName])

FinalUpdate(updated, aiLocationName) ==
  Spread(updated, [locationName |-> aiLocationName, isProcessing |-> FALSE])

\* variant: the sentinel is set and isProcessing is left on
ErrorUpdate_StillProcessing(updated) ==
  Spread(updated, [locationName |-> LOC_UNIDENTIFIED])

ErrorUpdate(updated) ==
  Spread(updated, [locationName |-> LOC_UNIDENTIFIED, isProcessing |-> FALSE])

(***************************************************************************)
(* Actions.                                                                *)
(***************************************************************************)
\* processFile up to its first await: the provisional record is upserted and
\* its durable write issued (addOrUpdatePhoto).
ProcessFile(file) ==
  /\ nOps < MaxOps
  /\ nOps' = nOps + 1
  /\ photos' = Upsert(photos, NewPhoto(file))
  /\ dbQueue' = Append(dbQueue, SavePhotoRequest(NewPhoto(file), nOps + 1))
  /\ tasks' = StartTask(nOps + 1, [kind |-> "processFile", file |-> file, pc |-> "save1"])
  /\ lastOp' = Op("processFile", PhotoId(file), TRUE, nOps + 1, <<>>)
  /\ UNCHANGED <<diaryNotes, dbPhotos, dbNotes, env, resolve, selectedPhotoForModal, focusedPhoto>>

\* what the awaiting handler does with photos when its savePhoto settles
PhotosAfterSave(task, ok) ==
  IF ok \/ (task.kind = "processFile" /\ task.pc = "save1") THEN photos
  ELSE IF task.kind = "processFile"
  THEN PatchById(photos, PhotoId(task.file), FailedPatch)
  ELSE ReplaceById(photos, task.id, ErrorUpdate(task.updated))

\* where the awaiting handler goes when its savePhoto settles
TasksAfterSave(tid, ok) ==
  LET task == tasks[tid] IN
  IF ok /\ task.kind = "processFile" /\ task.pc = "save1" /\ ReaderYieldsData(task.file)
  THEN [tasks EXCEPT ![tid].pc = "analyze"]
  ELSE EndTask(tid)

\* db.savePhoto is executed and settles; the awaiting handler resumes.
DbSavePhoto(ok) ==
  /\ Len(dbQueue) > 0
  /\ Head(dbQueue).op = "savePhoto"
  /\ LET req == Head(dbQueue) IN
       /\ dbPhotos' = IF ok THEN StorePut(dbPhotos, DataToSave(req.photo)) ELSE dbPhotos
       /\ photos' = PhotosAfterSave(tasks[req.tid], ok)
       /\ tasks' = TasksAfterSave(req.tid, ok)
       /\ lastOp' = Op("db.savePhoto", req.photo.id, ok, req.tid, <<>>)
  /\ dbQueue' = Tail(dbQueue)
  /\ UNCHANGED <<diaryNotes, dbNotes, nOps, env, resolve, selectedPhotoForModal, focusedPhoto>>

\* reader.onload of processFile: analyzeImage has returned `result`.
AnalyzeReturn(tid, result) ==
  /\ tid \in DOMAIN tasks
  /\ tasks[tid].kind = "processFile"
  /\ tasks[tid].pc = "analyze"
  /\ LET updated == UpdatedPhoto(tasks[tid].file, result, env) IN
       /\ photos' = Upsert(photos, updated)
       /\ dbQueue' = Append(dbQueue, SavePhotoRequest(updated, tid))
       /\ lastOp' = Op("analyzeImage", updated.id, TRUE, tid, <<result>>)
  /\ tasks' = [tasks EXCEPT ![tid].pc = "save2"]
  /\ UNCHANGED <<diaryNotes, dbPhotos, dbNotes, nOps, env, resolve, selectedPhotoForModal, focusedPhoto>>

\* variant: a record of an id the list does not hold is created
StartRelocation_Create(st, id, lat, lng) ==
  LET photo == IF FindIndex(st.photos, id) = 0
               THEN [id |-> id, fileBlob |-> NULL]
               ELSE st.photos[FindIndex(st.photos, id)]
      updated == RelocatedPhoto(photo, lat, lng)
      tid == st.nOps + 1
  IN [photos |-> IF FindIndex(st.photos, id) = 0
                 THEN Append(st.photos, updated)
                 ELSE ReplaceById(st.photos, id, updated),
      tasks |-> [t \in DOMAIN st.tasks \cup {tid} |->
                   IF t = tid
                   THEN [kind |-> "relocate", id |-> id, updated |-> updated, pc |-> "identify"]
                   ELSE st.tasks[t]],
      nOps |-> tid]

\* updatePhotoLocation up to the first await of its inner async function, as
\* invocation number st.nOps + 1 in a state st of photos, tasks and nOps
StartRelocation(st, id, lat, lng) ==
  IF FindIndex(st.photos, id) = 0
  THEN [st EXCEPT !.nOps = @ + 1]
  ELSE LET photo == st.photos[FindIndex(st.photos, id)]
           updated == RelocatedPhoto(photo, lat, lng)
           tid == st.nOps + 1
       IN [photos |-> ReplaceById(st.photos, id, updated),
           tasks |-> IF "fileBlob" \in DOMAIN photo
                     THEN [t \in DOMAIN st.tasks \cup {tid} |->
                             IF t = tid
                             THEN [kind |-> "relocate", id |-> id, updated |-> updated,
                                   pc |-> "identify"]
                             ELSE st.tasks[t]]
                     ELSE st.tasks,
           nOps |-> tid]

\* updatePhotoLocation, called by handleDrop with the photo dragged from the tray
UpdatePhotoLocation(id, lat, lng) ==
  /\ nOps < MaxOps
  /\ LET st == StartRelocation([photos |-> photos, tasks |-> tasks, nOps |-> nOps],
                               id, lat, lng)
     IN /\ photos' = st.photos
        /\ tasks' = st.tasks
        /\ nOps' = st.nOps
  /\ lastOp' = Op("updatePhotoLocation", id, TRUE, nOps + 1, <<lat, lng>>)
  /\ UNCHANGED <<diaryNotes, dbPhotos, dbNotes, dbQueue, env, resolve, selectedPhotoForModal, focusedPhoto>>

\* identifyLocation has returned a name (its own catch returns the literal).
IdentifyReturn(tid, aiLocationName) ==
  /\ tid \in DOMAIN tasks
  /\ tasks[tid].kind = "relocate"
  /\ tasks[tid].pc = "identify"
  /\ LET finalUpdate == FinalUpdate(tasks[tid].updated, aiLocationName) IN
       /\ photos' = ReplaceById(photos, tasks[tid].id, finalUpdate)
       /\ dbQueue' = Append(dbQueue, SavePhotoRequest(finalUpdate, tid))
  /\ tasks' = [tasks EXCEPT ![tid].pc = "save"]
  /\ lastOp' = Op("identifyLocation", tasks[tid].id, TRUE, tid, <<aiLocationName>>)
  /\ UNCHANGED <<diaryNotes, dbPhotos, dbNotes, nOps, env, resolve, selectedPhotoForModal, focusedPhoto>>

\* blobToBase64 rejects (reader.onerror): the catch of updatePhotoLocation.
BlobReadFail(tid) ==
  /\ tid \in DOMAIN tasks
  /\ tasks[tid].kind = "relocate"
  /\ tasks[tid].pc = "identify"
  /\ photos' = ReplaceById(photos, tasks[tid].id, ErrorUpdate(tasks[tid].updated))
  /\ tasks' = EndTask(tid)
  /\ lastOp' = Op("blobToBase64", tasks[tid].id, FALSE, tid, <<>>)
  /\ UNCHANGED <<diaryNotes, dbPhotos, dbNotes, dbQueue, nOps, env, resolve, selectedPhotoForModal, focusedPhoto>>

\* handleDeletePhoto up to its await: window.confirm, then db.deletePhoto.
\* Its callers are the delete buttons of a photo the list holds (the tray's
\* and the modal's, which every completed deletion closes).
HandleDeletePhoto(photoId, confirmed) ==
  /\ nOps < MaxOps
  /\ photoId \in PhotoIds(photos)
  /\ nOps' = nOps + 1
  /\ lastOp' = Op("handleDeletePhoto", photoId, confirmed, nOps + 1, <<>>)
  /\ IF confirmed
     THEN /\ dbQueue' = Append(dbQueue, DeletePhotoRequest(photoId, nOps + 1))
          /\ tasks' = StartTask(nOps + 1, [kind |-> "delete", id |-> photoId, pc |-> "db"])
     ELSE UNCHANGED <<dbQueue, tasks>>
  /\ UNCHANGED <<photos, diaryNotes, dbPhotos, dbNotes, env, resolve, selectedPhotoForModal, focusedPhoto>>

\* variant: the transaction covers the photos store only
DeleteBoth_PhotoOnly(photoRows, noteRows, photoId) ==
  <<StoreDelete(photoRows, photoId), noteRows>>

\* both rows of one readwrite transaction over the two stores
DeleteBoth(photoRows, noteRows, photoId) ==
  <<StoreDelete(photoRows, photoId), StoreDelete(noteRows, photoId)>>

\* variant: the modal is closed whether or not the delete succeeded
DbDeletePhoto_ModalClosed(ok) ==
  /\ Len(dbQueue) > 0
  /\ Head(dbQueue).op = "deletePhoto"
  /\ LET req == Head(dbQueue) IN
       /\ LET after == IF ok THEN DeleteBoth(dbPhotos, dbNotes, req.id)
                        ELSE <<dbPhotos, dbNotes>>
          IN dbPhotos' = after[1] /\ dbNotes' = after[2]
       /\ tasks' = IF ok THEN [tasks EXCEPT ![req.tid].pc = "resolved"] ELSE EndTask(req.tid)
       /\ lastOp' = Op("db.deletePhoto", req.id, ok, req.tid, <<>>)
  /\ dbQueue' = Tail(dbQueue)
  /\ selectedPhotoForModal' = NULL
  /\ UNCHANGED <<photos, diaryNotes, nOps, env, resolve, focusedPhoto>>

\* db.deletePhoto is executed: the transaction completes, or it fails and
\* leaves both stores as they were; on failure the handler's catch alerts.
DbDeletePhoto(ok) ==
  /\ Len(dbQueue) > 0
  /\ Head(dbQueue).op = "deletePhoto"
  /\ LET req == Head(dbQueue) IN
       /\ LET after == IF ok THEN DeleteBoth(dbPhotos, dbNotes, req.id)
                        ELSE <<dbPhotos, dbNotes>>
          IN dbPhotos' = after[1] /\ dbNotes' = after[2]
       /\ tasks' = IF ok THEN [tasks EXCEPT ![req.tid].pc = "resolved"] ELSE EndTask(req.tid)
       /\ lastOp' = Op("db.deletePhoto", req.id, ok, req.tid, <<>>)
  /\ dbQueue' = Tail(dbQueue)
  /\ UNCHANGED <<photos, diaryNotes, nOps, env, resolve, selectedPhotoForModal, focusedPhoto>>

\* setFocusedPhoto(prev => (prev?.id === photoId ? null : prev))
ClearFocus(prev, photoId) == IF prev # NULL /\ prev.id = photoId THEN NULL ELSE prev

\* handleDeletePhoto after its await resolved: the in-memory removal.
DeleteResolved(tid) ==
  /\ tid \in DOMAIN tasks
  /\ tasks[tid].kind = "delete"
  /\ tasks[tid].pc = "resolved"
  /\ photos' = FilterOut(photos, tasks[tid].id)
  /\ diaryNotes' = DeleteNote(diaryNotes, tasks[tid].id)
  /\ tasks' = EndTask(tid)
  /\ selectedPhotoForModal' = NULL
  /\ focusedPhoto' = ClearFocus(focusedPhoto, tasks[tid].id)
  /\ lastOp' = Op("deleteResolved", tasks[tid].id, TRUE, tid, <<>>)
  /\ UNCHANGED <<dbPhotos, dbNotes, dbQueue, nOps, env, resolve>>

\* handleUpdateNote, called by TimelineView's textarea of a photo it renders.
HandleUpdateNote(photoId, note) ==
  /\ nOps < MaxOps
  /\ photoId \in PhotoIds(photos)
  /\ nOps' = nOps + 1
  /\ diaryNotes' = SetNote(diaryNotes, photoId, note)
  /\ dbQueue' = Append(dbQueue, SaveNoteRequest(photoId, note))
  /\ lastOp' = Op("handleUpdateNote", photoId, TRUE, nOps + 1, <<note>>)
  /\ UNCHANGED <<photos, dbPhotos, dbNotes, tasks, env, resolve, selectedPhotoForModal, focusedPhoto>>

\* db.saveNote is executed and settles (nothing awaits its result's value).
DbSaveNote(ok) ==
  /\ Len(dbQueue) > 0
  /\ Head(dbQueue).op = "saveNote"
  /\ LET req == Head(dbQueue) IN
       /\ dbNotes' = IF ok THEN StorePut(dbNotes, [id |-> req.id, note |-> req.note]) ELSE dbNotes
       /\ lastOp' = Op("db.saveNote", req.id, ok, 0, <<>>)
  /\ dbQueue' = Tail(dbQueue)
  /\ UNCHANGED <<photos, diaryNotes, dbPhotos, tasks, nOps, env, resolve, selectedPhotoForModal, focusedPhoto>>

Next ==
  \/ \E file \in Files : ProcessFile(file)
  \/ \E ok \in BOOLEAN : DbSavePhoto(ok)
  \/ \E tid \in DOMAIN tasks, result \in AnalysisResults : AnalyzeReturn(tid, result)
  \/ \E id \in Ids, point \in DropPoints : UpdatePhotoLocation(id, point[1], point[2])
  \/ \E tid \in DOMAIN tasks, name \in LocationNames : IdentifyReturn(tid, name)
  \/ \E tid \in DOMAIN tasks : BlobReadFail(tid)
  \/ \E id \in Ids, confirmed \in BOOLEAN : HandleDeletePhoto(id, confirmed)
  \/ \E ok \in BOOLEAN : DbDeletePhoto(ok)
  \/ \E tid \in DOMAIN tasks : DeleteResolved(tid)
  \/ \E id \in Ids, note \in NoteTexts : HandleUpdateNote(id, note)
  \/ \E ok \in BOOLEAN : DbSaveNote(ok)

Spec == Init /\ [][Next]_vars

(***************************************************************************)
(* Date resolution on its own: one call of parseSmartDate (and of the      *)
(* provisional date of processFile) on inputs drawn from the sets below.   *)
(***************************************************************************)
NAME_PICNIC == <<"I", "M", "G", "_", "2", "0", "2", "3", "0", "7", "1", "4", "_", "p", "i", "c", "n", "i", "c", ".", "j", "p", "g">>
NAME_NINE_DIGITS == <<"I", "M", "G", "_", "1", "2", "0", "2", "3", "0", "7", "1", "4", ".", "j", "p", "g">>
NAME_TWO_RUNS == <<"1", "9", "7", "0", "0", "1", "0", "1", "_", "2", "0", "2", "3", "0", "7", "1", "4", ".", "j", "p", "g">>
NAME_MONTH13 == <<"2", "0", "2", "3", "1", "3", "4", "0", ".", "j", "p", "g">>
NAME_FEB31 == <<"I", "M", "G", "_", "2", "0", "2", "3", "0", "2", "3", "1", ".", "j", "p", "g">>
NAME_TWO_DATES == <<"2", "0", "2", "3", "0", "7", "1", "4", "_", "2", "0", "2", "4", "0", "1", "0", "1", ".", "j", "p", "g">>

FileNames ==
  {NAME_TRIP, NAME_PHOTO, NAME_PICNIC, NAME_NINE_DIGITS, NAME_TWO_RUNS, NAME_MONTH13, NAME_FEB31, NAME_TWO_DATES}

AI_UNKNOWN == <<"U", "n", "k", "n", "o", "w", "n">>
AI_DOTS == <<"2", "0", "2", "4", ".", ".", "0", "3">>
AI_EXIF == <<"2", "0", "2", "4", ":", "0", "3", ":", "1", "0", " ", "1", "2", ":", "3", "0", ":", "0", "0">>
AI_OLD == <<"1", "9", "7", "5", "/", "0", "1", "/", "0", "1">>
AI_FEB30 == <<"2", "0", "2", "4", "/", "0", "2", "/", "3", "0">>
AI_NEWYEAR == <<"2", "0", "2", "4", "/", "0", "1", "/", "0", "1">>
AI_JUNK == <<"n", "/", "a">>

\* date strings of the service: its format, EXIF style, placeholders, junk, none
AiDateStrs ==
  {DATE_SERVICE, DATE_TODAY_JA, NULL, AI_UNKNOWN, AI_DOTS, AI_EXIF, AI_OLD, AI_FEB30, AI_NEWYEAR, AI_JUNK}

FileDates == {MkDate(2024, 0, 1), MkDate(2023, 11, 31), MkDate(2024, 8, 9)}

ResolveCalls == [pc : {"call"}, filename : FileNames, aiDateStr : AiDateStrs, fileDate : FileDates]

InitDate ==
  /\ photos = <<>>
  /\ diaryNotes = <<>>
  /\ dbPhotos = {}
  /\ dbNotes = {}
  /\ dbQueue = <<>>
  /\ tasks = <<>>
  /\ nOps = 0
  /\ env \in Envs
  /\ lastOp = Op("init", <<>>, TRUE, 0, <<>>)
  /\ resolve \in ResolveCalls
  /\ selectedPhotoForModal = NULL
  /\ focusedPhoto = NULL

ResolveDate ==
  /\ resolve.pc = "call"
  /\ resolve' = [pc |-> "done", filename |-> resolve.filename, aiDateStr |-> resolve.aiDateStr,
                 fileDate |-> resolve.fileDate,
                 provisional |-> InitialDate(resolve.filename, resolve.fileDate),
                 result |-> parseSmartDate(resolve.filename, resolve.aiDateStr,
                                           resolve.fileDate, env)]
  /\ UNCHANGED <<photos, diaryNotes, dbPhotos, dbNotes, dbQueue, tasks, nOps, env, lastOp, selectedPhotoForModal, focusedPhoto>>

NextDate == ResolveDate

SpecDate == InitDate /\ [][NextDate]_vars

(***************************************************************************)
(* The state machine with a durable store and a file reader that never     *)
(* fail: what the interleaving of the handlers alone can do.               *)
(***************************************************************************)
NextReliable ==
  \/ \E file \in Files : ProcessFile(file)
  \/ DbSavePhoto(TRUE)
  \/ \E tid \in DOMAIN tasks, result \in AnalysisResults : AnalyzeReturn(tid, result)
  \/ \E id \in Ids, point \in DropPoints : UpdatePhotoLocation(id, point[1], point[2])
  \/ \E tid \in DOMAIN tasks, name \in LocationNames : IdentifyReturn(tid, name)
  \/ \E id \in Ids, confirmed \in BOOLEAN : HandleDeletePhoto(id, confirmed)
  \/ DbDeletePhoto(TRUE)
  \/ \E tid \in DOMAIN tasks : DeleteResolved(tid)
  \/ \E id \in Ids, note \in NoteTexts : HandleUpdateNote(id, note)
  \/ DbSaveNote(TRUE)

SpecReliable == Init /\ [][NextReliable]_vars

(***************************************************************************)
(* The state machine with the modal and the map focus: a card of the list  *)
(* or a marker of the map opens the modal on a record, the modal's         *)
(* backdrop or Close button closes it, and a card's focus button centres   *)
(* the map on a record that has coordinates.  Relocations are left out,    *)
(* and of the durable requests only the delete can fail.                   *)
(***************************************************************************)
\* onClick of a card, or onMarkerClick with photos.find(...)
SelectPhoto(id) ==
  /\ id \in PhotoIds(photos)
  /\ selectedPhotoForModal' = photos[FindIndex(photos, id)]
  /\ lastOp' = Op("selectPhoto", id, TRUE, 0, <<>>)
  /\ UNCHANGED <<photos, diaryNotes, dbPhotos, dbNotes, dbQueue, tasks, nOps, env, resolve,
                 focusedPhoto>>

\* onClick={() => setSelectedPhotoForModal(null)}
CloseModal ==
  /\ selectedPhotoForModal # NULL
  /\ selectedPhotoForModal' = NULL
  /\ lastOp' = Op("closeModal", selectedPhotoForModal.id, TRUE, 0, <<>>)
  /\ UNCHANGED <<photos, diaryNotes, dbPhotos, dbNotes, dbQueue, tasks, nOps, env, resolve,
                 focusedPhoto>>

\* handleFocusPhoto(p) of a card of the list
HandleFocusPhoto(id) ==
  /\ id \in PhotoIds(photos)
  /\ LET photo == photos[FindIndex(photos, id)] IN
       focusedPhoto' = IF photo.latitude = 0 /\ photo.longitude = 0 THEN focusedPhoto ELSE photo
  /\ lastOp' = Op("handleFocusPhoto", id, TRUE, 0, <<>>)
  /\ UNCHANGED <<photos, diaryNotes, dbPhotos, dbNotes, dbQueue, tasks, nOps, env, resolve,
                 selectedPhotoForModal>>

NextView ==
  \/ \E file \in Files : ProcessFile(file)
  \/ DbSavePhoto(TRUE)
  \/ \E tid \in DOMAIN tasks, result \in AnalysisResults : AnalyzeReturn(tid, result)
  \/ \E id \in Ids, confirmed \in BOOLEAN : HandleDeletePhoto(id, confirmed)
  \/ \E ok \in BOOLEAN : DbDeletePhoto(ok)
  \/ \E tid \in DOMAIN tasks : DeleteResolved(tid)
  \/ \E id \in Ids, note \in NoteTexts : HandleUpdateNote(id, note)
  \/ DbSaveNote(TRUE)
  \/ \E id \in Ids : SelectPhoto(id)
  \/ CloseModal
  \/ \E id \in Ids : HandleFocusPhoto(id)

SpecView == Init /\ [][NextView]_vars

(***************************************************************************)
(* The state machine in which every relocation's blob read and naming call *)
(* return: once a relocation waits for them, one of the two outcomes       *)
(* (the name arrives, or the read rejects) eventually happens.             *)
(***************************************************************************)
RelocationReturns(tid) ==
  (\E name \in LocationNames : IdentifyReturn(tid, name)) \/ BlobReadFail(tid)

SpecLive == Init /\ [][Next]_vars /\ \A tid \in 1..MaxOps : WF_vars(RelocationReturns(tid))

(***************************************************************************)
(* The state machine over sessions: the page is reloaded once everything   *)
(* the previous session started has settled, and loadData fills the state  *)
(* of the new session from the durable stores.  Notes are edited with two  *)
(* texts.                                                                  *)
(***************************************************************************)
SessionNoteTexts == {"memo", "memo, edited"}

\* loadData of the App's mount effect, in a new session
LoadData ==
  /\ Len(dbQueue) = 0
  /\ DOMAIN tasks = {}
  /\ photos' = GetAllPhotos(dbPhotos)
  /\ diaryNotes' = GetAllNotes(dbNotes)
  /\ selectedPhotoForModal' = NULL
  /\ focusedPhoto' = NULL
  /\ lastOp' = Op("loadData", <<>>, TRUE, 0, <<>>)
  /\ UNCHANGED <<dbPhotos, dbNotes, dbQueue, tasks, nOps, env, resolve>>

NextSession ==
  \/ \E file \in Files : ProcessFile(file)
  \/ \E ok \in BOOLEAN : DbSavePhoto(ok)
  \/ \E tid \in DOMAIN tasks, result \in AnalysisResults : AnalyzeReturn(tid, result)
  \/ \E id \in Ids, point \in DropPoints : UpdatePhotoLocation(id, point[1], point[2])
  \/ \E tid \in DOMAIN tasks, name \in LocationNames : IdentifyReturn(tid, name)
  \/ \E tid \in DOMAIN tasks : BlobReadFail(tid)
  \/ \E id \in Ids, confirmed \in BOOLEAN : HandleDeletePhoto(id, confirmed)
  \/ \E ok \in BOOLEAN : DbDeletePhoto(ok)
  \/ \E tid \in DOMAIN tasks : DeleteResolved(tid)
  \/ \E id \in Ids, note \in SessionNoteTexts : HandleUpdateNote(id, note)
  \/ \E ok \in BOOLEAN : DbSaveNote(ok)
  \/ LoadData

SpecSession == Init /\ [][NextSession]_vars

(***************************************************************************)
(* What the views compute from the photo list they are given               *)
(* (MapView.tsx, App.tsx, CalendarView.tsx, TimelineView.tsx).             *)
(***************************************************************************)
\* The NaN that Number() makes of a latitude or longitude that is no number
\* (undefined, a text that is not a numeral); such a value is represented by
\* the NaN it turns into.
NaN == 2000000000

\* isNaN(n)
IsNaN(n) == n = NaN

\* the callback of mappedPhotos' filter
IsMapped(p) ==
  LET lat == p.latitude
      lng == p.longitude
  IN ~IsNaN(lat) /\ ~IsNaN(lng) /\ (lat # 0 \/ lng # 0)

\* variant: a photo with one coordinate 0 is unknown
IsUnknown_EitherZero(p) ==
  LET lat == p.latitude
      lng == p.longitude
  IN IsNaN(lat) \/ IsNaN(lng) \/ (lat = 0 \/ lng = 0)

\* the callback of unknownPhotos' filter
IsUnknown(p) ==
  LET lat == p.latitude
      lng == p.longitude
  IN IsNaN(lat) \/ IsNaN(lng) \/ (lat = 0 /\ lng = 0)

\* photos.filter(callback) is SelectSeq(photos, callback)
mappedPhotos(list) == SelectSeq(list, IsMapped)

unknownPhotos(list) == SelectSeq(list, IsUnknown)

\* s.padStart(6, '0') of a string of at most 6 characters
RECURSIVE PadStart6(_)
PadStart6(s) == IF Len(s) < 6 THEN PadStart6(<<"0">> \o s) ELSE s

\* n.toFixed(6): a "-" for a number below zero, then the magnitude rounded to
\* six decimals, the nearest millionth (no value used lies halfway)
ToFixed6(n) ==
  LET magnitude == IF n < 0 THEN 0 - n ELSE n
      millionths == (magnitude + 5) \div 10
  IN (IF n < 0 THEN <<"-">> ELSE <<>>)
       \o NumToStr(millionths \div 1000000) \o <<".">>
       \o PadStart6(NumToStr(millionths % 1000000))

\* `${Number(photo.latitude).toFixed(6)}-${Number(photo.longitude).toFixed(6)}`
ClusterKey(photo) == ToFixed6(photo.latitude) \o <<"-">> \o ToFixed6(photo.longitude)

\* where acc[key] is, 0 if it is not there
KeyIndex(acc, key) ==
  IF \E i \in 1..Len(acc) : acc[i].key = key
  THEN CHOOSE i \in 1..Len(acc) : acc[i].key = key
  ELSE 0

\* variant: every member gives the cluster its name
ClusterStep_Rename(acc, photo) ==
  LET key == ClusterKey(photo)
      created == IF KeyIndex(acc, key) = 0
                 THEN Append(acc, [key |-> key, name |-> photo.locationName, count |-> 0,
                                   lat |-> photo.latitude, lng |-> photo.longitude,
                                   photoIds |-> <<>>, thumbnailUrl |-> photo.url])
                 ELSE acc
      at == IF KeyIndex(acc, key) = 0 THEN Len(created) ELSE KeyIndex(acc, key)
  IN [created EXCEPT ![at].count = @ + 1, ![at].photoIds = Append(@, photo.id),
                     ![at].name = photo.locationName]

\* the reducer of clusters: acc is the object's entries in insertion order,
\* the order in which Object.values lists them
ClusterStep(acc, photo) ==
  LET key == ClusterKey(photo)
      created == IF KeyIndex(acc, key) = 0
                 THEN Append(acc, [key |-> key, name |-> photo.locationName, count |-> 0,
                                   lat |-> photo.latitude, lng |-> photo.longitude,
                                   photoIds |-> <<>>, thumbnailUrl |-> photo.url])
                 ELSE acc
      at == IF KeyIndex(acc, key) = 0 THEN Len(created) ELSE KeyIndex(acc, key)
  IN [created EXCEPT ![at].count = @ + 1, ![at].photoIds = Append(@, photo.id)]

\* mappedPhotos.reduce(reducer, {})
RECURSIVE Clusters(_)
Clusters(mapped) ==
  IF Len(mapped) = 0 THEN <<>>
  ELSE ClusterStep(Clusters(SubSeq(mapped, 1, Len(mapped) - 1)), mapped[Len(mapped)])

\* variant: both bounds are excluded
InDateRange_Exclusive(p, dateRange) ==
  StrLess(dateRange.start, p.date) /\ StrLess(p.date, dateRange.end)

\* p.date >= dateRange.start && p.date <= dateRange.end
InDateRange(p, dateRange) ==
  StrLeq(dateRange.start, p.date) /\ StrLeq(p.date, dateRange.end)

\* filteredPhotosByDate (App.tsx)
RECURSIVE filteredPhotosByDate(_, _)
filteredPhotosByDate(list, dateRange) ==
  IF Len(list) = 0 THEN <<>>
  ELSE IF InDateRange(Head(list), dateRange)
  THEN <<Head(list)>> \o filteredPhotosByDate(Tail(list), dateRange)
  ELSE filteredPhotosByDate(Tail(list), dateRange)

\* variant: only the first record is looked at
dayPhotos_First(list, date) ==
  IF Len(list) > 0 /\ list[1].date = date THEN <<list[1]>> ELSE <<>>

\* dayPhotos (TimelineView.tsx): photos.filter(p => p.date === date)
RECURSIVE dayPhotos(_, _)
dayPhotos(list, date) ==
  IF Len(list) = 0 THEN <<>>
  ELSE IF Head(list).date = date
  THEN <<Head(list)>> \o dayPhotos(Tail(list), date)
  ELSE dayPhotos(Tail(list), date)

\* variant: a date is marked, not counted
CountStep_Mark(acc, p) ==
  [d \in DOMAIN acc \cup {p.date} |-> IF d = p.date THEN 1 ELSE acc[d]]

\* the reducer of photoCountsByDate: acc[date] = (acc[date] || 0) + 1
CountStep(acc, p) ==
  [d \in DOMAIN acc \cup {p.date} |->
     IF d = p.date THEN (IF d \in DOMAIN acc THEN acc[d] ELSE 0) + 1 ELSE acc[d]]

\* photoCountsByDate (CalendarView.tsx): photos.reduce(reducer, {})
RECURSIVE photoCountsByDate(_)
photoCountsByDate(list) ==
  IF Len(list) = 0 THEN <<>>
  ELSE CountStep(photoCountsByDate(SubSeq(list, 1, Len(list) - 1)), list[Len(list)])

(***************************************************************************)
(* The views on their own: the photo list is drawn from the lists below,   *)
(* and each view is rendered from it.                                      *)
(***************************************************************************)
FILE_PICNIC == [name |-> NAME_PICNIC, size |-> 3, lastModified |-> 2, type |-> "image/jpeg"]

\* the files of the list, in store order
RenderFiles == <<FILE_TRIP, FILE_PHOTO, FILE_PICNIC>>

\* coordinates a record can have: none yet, not a number, on the equator, a
\* few 10^-7 degrees to either side of it, and far from it
RenderPoints ==
  {<<0, 0>>, <<NaN, 139 * Degree>>, <<0, 139 * Degree>>, <<0 - 1, 139 * Degree>>,
   <<1, 139 * Degree>>, <<4, 139 * Degree>>, <<35 * Degree, 139 * Degree>>}

DATE_2023_12_31 == <<"2", "0", "2", "3", "-", "1", "2", "-", "3", "1">>
DATE_2024_06_15 == <<"2", "0", "2", "4", "-", "0", "6", "-", "1", "5">>
DATE_2025_01_01 == <<"2", "0", "2", "5", "-", "0", "1", "-", "0", "1">>

RenderDates == {DATE_2023_12_31, DATE_2024_06_15, DATE_2025_01_01}

\* a record of the store: the file's record with coordinates and a date
RenderRecord(file, point, date) ==
  Spread(NewPhoto(file), [latitude |-> point[1], longitude |-> point[2], date |-> date,
                          locationName |-> file.name, isProcessing |-> FALSE])

RenderRecords(file) == {RenderRecord(file, point, date) : point \in RenderPoints, date \in RenderDates}

RenderLists ==
  UNION {{list \in [1..n -> UNION {RenderRecords(RenderFiles[i]) : i \in 1..n}] :
            \A i \in 1..n : list[i].id = PhotoId(RenderFiles[i])} :
         n \in 0..Len(RenderFiles)}

InitRender ==
  /\ photos \in RenderLists
  /\ diaryNotes = <<>>
  /\ dbPhotos = {}
  /\ dbNotes = {}
  /\ dbQueue = <<>>
  /\ tasks = <<>>
  /\ nOps = 0
  /\ env = [west |-> FALSE, lenient |-> TRUE]
  /\ lastOp = Op("init", <<>>, TRUE, 0, <<>>)
  /\ resolve = RESOLVE_IDLE
  /\ selectedPhotoForModal = NULL
  /\ focusedPhoto = NULL

\* MapView is rendered
RenderMap ==
  /\ resolve' = [pc |-> "map", mappedPhotos |-> mappedPhotos(photos),
                 unknownPhotos |-> unknownPhotos(photos),
                 clusters |-> Clusters(mappedPhotos(photos))]
  /\ UNCHANGED <<photos, diaryNotes, dbPhotos, dbNotes, dbQueue, tasks, nOps, env, lastOp,
                 selectedPhotoForModal, focusedPhoto>>

DATE_2024_01_01 == <<"2", "0", "2", "4", "-", "0", "1", "-", "0", "1">>
DATE_2024_12_31 == <<"2", "0", "2", "4", "-", "1", "2", "-", "3", "1">>

\* what the two date inputs of the settings can hold: the year 2024, a range
\* whose bounds are dates of records, a range that ends before it starts, and
\* a range whose start has been cleared
DateRanges ==
  {[start |-> DATE_2024_01_01, end |-> DATE_2024_12_31],
   [start |-> DATE_2023_12_31, end |-> DATE_2024_06_15],
   [start |-> DATE_2025_01_01, end |-> DATE_2023_12_31],
   [start |-> <<>>, end |-> DATE_2024_06_15]}

\* the list view is rendered with the settings' range
RenderList(dateRange) ==
  /\ resolve' = [pc |-> "list", dateRange |-> dateRange,
                 filteredPhotosByDate |-> filteredPhotosByDate(photos, dateRange)]
  /\ UNCHANGED <<photos, diaryNotes, dbPhotos, dbNotes, dbQueue, tasks, nOps, env, lastOp,
                 selectedPhotoForModal, focusedPhoto>>

\* CalendarView is rendered
RenderCalendar ==
  /\ resolve' = [pc |-> "calendar", photoCountsByDate |-> photoCountsByDate(photos)]
  /\ UNCHANGED <<photos, diaryNotes, dbPhotos, dbNotes, dbQueue, tasks, nOps, env, lastOp,
                 selectedPhotoForModal, focusedPhoto>>

\* TimelineView is rendered for the date selected in the calendar
RenderTimeline(date) ==
  /\ resolve' = [pc |-> "timeline", date |-> date, dayPhotos |-> dayPhotos(photos, date)]
  /\ UNCHANGED <<photos, diaryNotes, dbPhotos, dbNotes, dbQueue, tasks, nOps, env, lastOp,
                 selectedPhotoForModal, focusedPhoto>>

NextRender ==
  \/ RenderMap
  \/ \E dateRange \in DateRanges : RenderList(dateRange)
  \/ RenderCalendar
  \/ \E date \in RenderDates : RenderTimeline(date)

SpecRender == InitRender /\ [][NextRender]_vars

(***************************************************************************)
(* The tray of MapView: the photos without coordinates, grouped in folders *)
(* by label.  The tray is rendered over lists of up to three records, each *)
(* at (0, 0) or at a place, processing or not, and without a country, with *)
(* an empty one or with one of two names.                                  *)
(***************************************************************************)
\* variant: the country comes before the processing flag
CountryLabel_CountryFirst(photo) ==
  IF "country" \in DOMAIN photo /\ photo.country # ""
  THEN photo.country
  ELSE IF photo.isProcessing THEN "Analyzing..." ELSE "Unmapped"

\* photo.isProcessing ? "Analyzing..." : (photo.country || "Unmapped")
CountryLabel(photo) ==
  IF photo.isProcessing THEN "Analyzing..."
  ELSE IF "country" \in DOMAIN photo /\ photo.country # "" THEN photo.country
  ELSE "Unmapped"

\* the reducer of unknownFolders: acc is the object's entries in insertion order
FolderStep(acc, photo) ==
  LET countryLabel == CountryLabel(photo)
      created == IF \E i \in 1..Len(acc) : acc[i].label = countryLabel
                 THEN acc
                 ELSE Append(acc, [label |-> countryLabel, photos |-> <<>>])
      at == CHOOSE i \in 1..Len(created) : created[i].label = countryLabel
  IN [created EXCEPT ![at].photos = Append(@, photo)]

\* unknownPhotos.reduce(reducer, {})
RECURSIVE unknownFolders(_)
unknownFolders(unknown) ==
  IF Len(unknown) = 0 THEN <<>>
  ELSE FolderStep(unknownFolders(SubSeq(unknown, 1, Len(unknown) - 1)), unknown[Len(unknown)])

\* the records a file can have in the list
TrayRecords(file) ==
  LET Base(point, processing) ==
        Spread(NewPhoto(file), [latitude |-> point[1], longitude |-> point[2],
                                isProcessing |-> processing])
  IN UNION {{Base(point, processing)} \cup
            {Spread(Base(point, processing), [country |-> country]) :
               country \in {"", "Japan", "unknown"}} :
            point \in {<<0, 0>>, <<35 * Degree, 139 * Degree>>}, processing \in BOOLEAN}

TrayLists ==
  UNION {{list \in [1..n -> UNION {TrayRecords(RenderFiles[i]) : i \in 1..n}] :
            \A i \in 1..n : list[i].id = PhotoId(RenderFiles[i])} :
         n \in 0..Len(RenderFiles)}

InitTray ==
  /\ photos \in TrayLists
  /\ diaryNotes = <<>>
  /\ dbPhotos = {}
  /\ dbNotes = {}
  /\ dbQueue = <<>>
  /\ tasks = <<>>
  /\ nOps = 0
  /\ env = [west |-> FALSE, lenient |-> TRUE]
  /\ lastOp = Op("init", <<>>, TRUE, 0, <<>>)
  /\ resolve = RESOLVE_IDLE
  /\ selectedPhotoForModal = NULL
  /\ focusedPhoto = NULL

\* MapView is rendered with its tray
RenderTray ==
  /\ resolve' = [pc |-> "tray", unknownPhotos |-> unknownPhotos(photos),
                 unknownFolders |-> unknownFolders(unknownPhotos(photos))]
  /\ UNCHANGED <<photos, diaryNotes, dbPhotos, dbNotes, dbQueue, tasks, nOps, env, lastOp,
                 selectedPhotoForModal, focusedPhoto>>

SpecTray == InitTray /\ [][RenderTray]_vars

(***************************************************************************)
(* The state machine of a session loaded from a store of two enriched      *)
(* photos of the same day at the same place, which the map shows as one    *)
(* cluster whose marker can be dragged.  The durable writes of photos      *)
(* succeed, and photos are relocated by dragging markers only.             *)
(***************************************************************************)
\* an analysis result whose date is the day in the name of FILE_TRIP
RESULT_SAME_DAY == [RESULT_OK EXCEPT !.date = <<"2", "0", "2", "4", "/", "0", "3", "/", "0", "5">>]

\* the rows an earlier session in environment e has left
StoredRows(e) ==
  {DataToSave(UpdatedPhoto(FILE_TRIP, RESULT_OK, e)),
   DataToSave(UpdatedPhoto(FILE_PHOTO, RESULT_SAME_DAY, e))}

InitLoaded ==
  /\ env = [west |-> FALSE, lenient |-> TRUE]
  /\ dbPhotos = StoredRows(env)
  /\ dbNotes = {}
  /\ photos = GetAllPhotos(dbPhotos)
  /\ diaryNotes = GetAllNotes(dbNotes)
  /\ dbQueue = <<>>
  /\ tasks = <<>>
  /\ nOps = 0
  /\ lastOp = Op("init", <<>>, TRUE, 0, <<>>)
  /\ resolve = RESOLVE_IDLE
  /\ selectedPhotoForModal = NULL
  /\ focusedPhoto = NULL

\* the dateRange state as initialized: from 2000-01-01 to today
DefaultDateRange ==
  [start |-> <<"2", "0", "0", "0", "-", "0", "1", "-", "0", "1">>,
   end |-> <<"2", "0", "2", "6", "-", "1", "1", "-", "0", "3">>]

\* the clusters MapView draws markers for
DrawnClusters == Clusters(mappedPhotos(filteredPhotosByDate(photos, DefaultDateRange)))

\* variant: only the first member of the cluster is relocated
RelocateEach_FirstOnly(st, photoIds, lat, lng) ==
  IF Len(photoIds) = 0 THEN st ELSE StartRelocation(st, Head(photoIds), lat, lng)

\* cluster.photoIds.forEach(id => onUpdatePhotoLocation(id, pos.lat, pos.lng))
RECURSIVE RelocateEach(_, _, _, _)
RelocateEach(st, photoIds, lat, lng) ==
  IF Len(photoIds) = 0 THEN st
  ELSE RelocateEach(StartRelocation(st, Head(photoIds), lat, lng), Tail(photoIds), lat, lng)

\* dragend of the marker of cluster number i
DragCluster(i, lat, lng) ==
  /\ i \in 1..Len(DrawnClusters)
  /\ nOps + Len(DrawnClusters[i].photoIds) <= MaxOps
  /\ LET st == RelocateEach([photos |-> photos, tasks |-> tasks, nOps |-> nOps],
                            DrawnClusters[i].photoIds, lat, lng)
     IN /\ photos' = st.photos
        /\ tasks' = st.tasks
        /\ nOps' = st.nOps
  /\ lastOp' = Op("dragend", DrawnClusters[i].photoIds, TRUE, 0, <<lat, lng>>)
  /\ UNCHANGED <<diaryNotes, dbPhotos, dbNotes, dbQueue, env, resolve, selectedPhotoForModal, focusedPhoto>>

NextLoaded ==
  \/ \E file \in Files : ProcessFile(file)
  \/ DbSavePhoto(TRUE)
  \/ \E tid \in DOMAIN tasks, result \in AnalysisResults : AnalyzeReturn(tid, result)
  \/ \E i \in 1..Len(DrawnClusters), point \in DropPoints : DragCluster(i, point[1], point[2])
  \/ \E tid \in DOMAIN tasks, name \in LocationNames : IdentifyReturn(tid, name)
  \/ \E tid \in DOMAIN tasks : BlobReadFail(tid)
  \/ \E id \in Ids, confirmed \in BOOLEAN : HandleDeletePhoto(id, confirmed)
  \/ \E ok \in BOOLEAN : DbDeletePhoto(ok)
  \/ \E tid \in DOMAIN tasks : DeleteResolved(tid)

SpecLoaded == InitLoaded /\ [][NextLoaded]_vars

(***************************************************************************)
(* The state machine of uploads in which every durable request settles and *)
(* every inference call returns.  One of the files is empty: its data URL  *)
(* has nothing after the comma.  Photos are uploaded and deleted only.     *)
(***************************************************************************)
FILE_EMPTY ==
  [name |-> <<"e", "m", "p", "t", "y", ".", "j", "p", "g">>, size |-> 0, lastModified |-> 2,
   type |-> "image/jpeg"]

UploadFiles == {FILE_PHOTO, FILE_EMPTY}

\* the request at the head of the queue is executed and settles
DbSettles ==
  \/ \E ok \in BOOLEAN : DbSavePhoto(ok)
  \/ \E ok \in BOOLEAN : DbDeletePhoto(ok)

\* the FileReader has loaded the file and analyzeImage has returned
AnalysisReturns(tid) == \E result \in AnalysisResults : AnalyzeReturn(tid, result)

\* analyzeImage has been called by task tid and has not returned
AnalysisPending(tid) ==
  tid \in DOMAIN tasks /\ tasks[tid].kind = "processFile" /\ tasks[tid].pc = "analyze"

NextUpload ==
  \/ \E file \in UploadFiles : ProcessFile(file)
  \/ DbSettles
  \/ \E tid \in DOMAIN tasks : AnalysisReturns(tid)
  \/ \E file \in UploadFiles, confirmed \in BOOLEAN : HandleDeletePhoto(PhotoId(file), confirmed)
  \/ \E tid \in DOMAIN tasks : DeleteResolved(tid)

\* Weak fairness of AnalysisReturns(tid), with its enabling condition written
\* out: the step is enabled exactly while the analysis is pending.
AnalysisFair(tid) ==
  []<>~AnalysisPending(tid) \/ []<><<AnalysisReturns(tid)>>_vars

SpecUpload ==
  /\ Init
  /\ [][NextUpload]_vars
  /\ WF_vars(DbSettles)
  /\ \A tid \in 1..MaxOps : AnalysisFair(tid)
  /\ \A tid \in 1..MaxOps : WF_vars(DeleteResolved(tid))

(***************************************************************************)
(* Vocabulary of the claims.                                               *)
(***************************************************************************)
InMemory(id) == id \in PhotoIds(photos)

InDurable(id) == id \in RowIds(dbPhotos)

\* the record of `id` in a list that holds it
RecordOf(list, id) == list[FindIndex(list, id)]

\* the list holds a record of photo's id that has every field of photo
Holds(list, photo) ==
  \E i \in 1..Len(list) :
    /\ list[i].id = photo.id
    /\ \A f \in DOMAIN photo : f \in DOMAIN list[i] /\ list[i][f] = photo[f]

\* an initial enrichment (a processFile invocation) is in flight for id
EnrichmentInFlight(id) ==
  \E t \in DOMAIN tasks : tasks[t].kind = "processFile" /\ PhotoId(tasks[t].file) = id

\* id is in no store, in memory or durable
NowherePresent(id) ==
  /\ id \notin PhotoIds(photos)
  /\ id \notin DOMAIN diaryNotes
  /\ id \notin RowIds(dbPhotos)
  /\ id \notin RowIds(dbNotes)

(***************************************************************************)
(* C1.  A photo deleted while its initial enrichment is in flight stays    *)
(* deleted: once the id is absent from the in-memory list and from the     *)
(* durable photos store with the enrichment still pending, no step other   *)
(* than a new submission of the same file brings it back to either.        *)
(* (The code appends the arriving result: the statement is violated.)      *)
(***************************************************************************)
C1_DeletedStaysDeleted ==
  [][\A id \in Ids :
       (/\ ~InMemory(id)
        /\ ~InDurable(id)
        /\ EnrichmentInFlight(id)
        /\ ~(lastOp'.op = "processFile" /\ lastOp'.id = id))
       => (id \notin PhotoIds(photos') /\ id \notin RowIds(dbPhotos'))]_vars

(***************************************************************************)
(* C2.  Every durable request (savePhoto, saveNote, deletePhoto) is issued *)
(* with its change already applied in memory, and no photo row leaves the  *)
(* durable store while the record is in memory.                            *)
(* (The completion of a relocation saves a record the list no longer       *)
(* holds, and handleDeletePhoto deletes durably first: violated.)          *)
(***************************************************************************)
C2_DurableNeverAhead ==
  [][/\ (Len(dbQueue') = Len(dbQueue) + 1) =>
          LET r == dbQueue'[Len(dbQueue')] IN
          CASE r.op = "savePhoto" -> Holds(photos', r.photo)
            [] r.op = "saveNote" -> r.id \in DOMAIN diaryNotes' /\ diaryNotes'[r.id] = r.note
            [] r.op = "deletePhoto" ->
                 r.id \notin PhotoIds(photos') /\ r.id \notin DOMAIN diaryNotes'
     /\ \A id \in Ids :
          (InDurable(id) /\ id \notin RowIds(dbPhotos')) => id \notin PhotoIds(photos')]_vars

(***************************************************************************)
(* C3.  For a file name that contains an 8-digit substring YYYYMMDD with   *)
(* 1980 < year < 2100, 1 <= month <= 12 and 1 <= day <= 31, parseSmartDate *)
(* and the provisional date return such a date, formatted YYYY-MM-DD, for  *)
(* every service date string, file date and environment.                   *)
(* (The code tests only the leftmost 8-digit window: violated.)            *)
(***************************************************************************)
ValidDateAt(s, i) ==
  /\ DigitRunAt(s, i)
  /\ LET y == ParseInt(SubSeq(s, i, i + 3))
         m == ParseInt(SubSeq(s, i + 4, i + 5))
         d == ParseInt(SubSeq(s, i + 6, i + 7))
     IN y > 1980 /\ y < 2100 /\ m >= 1 /\ m <= 12 /\ d >= 1 /\ d <= 31

\* the dates a file name contains, each written YYYY-MM-DD
DatesIn(s) ==
  {SubSeq(s, i, i + 3) \o <<"-">> \o SubSeq(s, i + 4, i + 5) \o <<"-">> \o SubSeq(s, i + 6, i + 7) :
     i \in {k \in 1..Len(s) : ValidDateAt(s, k)}}

C3_FilenameDateWins ==
  (resolve.pc = "done" /\ DatesIn(resolve.filename) # {})
    => (resolve.result \in DatesIn(resolve.filename)
        /\ resolve.provisional \in DatesIn(resolve.filename))

(***************************************************************************)
(* C4.  addOrUpdatePhoto(photo) is an upsert by id.  If the list holds a   *)
(* record of photo's id, that record becomes the old one with every field  *)
(* of photo overwritten and every other field kept, at the same position,  *)
(* and nothing else changes; otherwise photo is appended.                  *)
(***************************************************************************)
C4_UpsertById ==
  [][lastOp'.op \in {"processFile", "analyzeImage"} =>
       LET photo == dbQueue'[Len(dbQueue')].photo
           i == FindIndex(photos, photo.id)
       IN IF i > 0
          THEN /\ Len(photos') = Len(photos)
               /\ \A j \in 1..Len(photos) : j # i => photos'[j] = photos[j]
               /\ DOMAIN photos'[i] = DOMAIN photos[i] \cup DOMAIN photo
               /\ \A f \in DOMAIN photo : photos'[i][f] = photo[f]
               /\ \A f \in DOMAIN photos[i] \ DOMAIN photo : photos'[i][f] = photos[i][f]
          ELSE /\ Len(photos') = Len(photos) + 1
               /\ SubSeq(photos', 1, Len(photos)) = photos
               /\ photos'[Len(photos')] = photo]_vars

\* a file submitted again after its enrichment: the provisional record has
\* overwritten isProcessing and the merge has kept country, which it lacks
C4_Witness ==
  /\ lastOp.op = "processFile"
  /\ InMemory(lastOp.id)
  /\ "country" \in DOMAIN RecordOf(photos, lastOp.id)
  /\ RecordOf(photos, lastOp.id).isProcessing
  /\ RecordOf(photos, lastOp.id).locationName = LOC_ANALYZING

(***************************************************************************)
(* C5.  The in-memory list never holds two records with the same id, and   *)
(* the durable photos store never holds two rows with the same id.         *)
(***************************************************************************)
C5_OneRecordPerId ==
  /\ \A i, j \in 1..Len(photos) : photos[i].id = photos[j].id => i = j
  /\ \A r1, r2 \in dbPhotos : r1.id = r2.id => r1 = r2

\* the same file submitted twice, both provisional saves committed and both
\* enrichments in flight: one record, one row
C5_Witness ==
  /\ \E t1, t2 \in DOMAIN tasks :
       /\ t1 # t2
       /\ tasks[t1].kind = "processFile"
       /\ tasks[t2].kind = "processFile"
       /\ tasks[t1].file = tasks[t2].file
       /\ tasks[t1].pc = "analyze"
       /\ tasks[t2].pc = "analyze"
  /\ Len(photos) = 1
  /\ Cardinality(dbPhotos) = 1

(***************************************************************************)
(* C6.  A successful durable delete of id removes exactly the photo row    *)
(* and the note row of id; the handler's continuation removes exactly the  *)
(* record and the note of id from memory; and a deletion of an id that is  *)
(* in no store changes no photo and no note, in memory or durable.         *)
(***************************************************************************)
C6_DeleteRemovesBoth ==
  [][/\ (lastOp'.op = "db.deletePhoto" /\ lastOp'.ok) =>
          /\ dbPhotos' = {r \in dbPhotos : r.id # lastOp'.id}
          /\ dbNotes' = {r \in dbNotes : r.id # lastOp'.id}
     /\ (lastOp'.op = "deleteResolved") =>
          /\ PhotoIds(photos') = PhotoIds(photos) \ {lastOp'.id}
          /\ \A k \in 1..Len(photos') : photos'[k] = RecordOf(photos, photos'[k].id)
          /\ DOMAIN diaryNotes' = DOMAIN diaryNotes \ {lastOp'.id}
          /\ \A k \in DOMAIN diaryNotes' : diaryNotes'[k] = diaryNotes[k]
     /\ (/\ lastOp'.op \in {"db.deletePhoto", "deleteResolved"}
         /\ NowherePresent(lastOp'.id)) =>
          /\ photos' = photos
          /\ diaryNotes' = diaryNotes
          /\ dbPhotos' = dbPhotos
          /\ dbNotes' = dbNotes]_vars

\* a photo deleted during its enrichment: the deletion has completed and the
\* id, which was in memory and durable, is in no store
C6_Witness ==
  /\ lastOp.op = "deleteResolved"
  /\ NowherePresent(lastOp.id)
  /\ \E t \in DOMAIN tasks :
       /\ tasks[t].kind = "processFile"
       /\ PhotoId(tasks[t].file) = lastOp.id
       /\ tasks[t].pc = "analyze"

C8_DeleteIsOneUnit ==
  [][lastOp'.op = "db.deletePhoto" =>
       \/ (lastOp'.id \notin RowIds(dbPhotos') /\ lastOp'.id \notin RowIds(dbNotes'))
       \/ (dbPhotos' = dbPhotos /\ dbNotes' = dbNotes)]_vars

\* a rejected delete of an id with a photo row and a note row: both remain
C8_Witness ==
  /\ lastOp.op = "db.deletePhoto"
  /\ ~lastOp.ok
  /\ InDurable(lastOp.id)
  /\ lastOp.id \in RowIds(dbNotes)

(***************************************************************************)
(* C9.  No orphaned notes: every in-memory note is keyed by the id of an   *)
(* in-memory photo, and every row of the durable notes store by the id of  *)
(* a row of the durable photos store.                                      *)
(* (A saveNote issued while a delete is in flight lands after it:          *)
(* violated, with a durable store that never fails.)                       *)
(***************************************************************************)
C9_NoOrphanNotes ==
  /\ DOMAIN diaryNotes \subseteq PhotoIds(photos)
  /\ RowIds(dbNotes) \subseteq RowIds(dbPhotos)

(***************************************************************************)
(* C10.  updatePhotoLocation(id, lat, lng) on a record in the list shows,  *)
(* in the step of the call and with the naming call still pending, the     *)
(* record with (lat, lng), manuallyPlaced, isProcessing and the            *)
(* placeholder name; when the naming call returns a name and the record    *)
(* is still in the list, the record has that name, isProcessing = false,   *)
(* the coordinates of that call and manuallyPlaced.                        *)
(***************************************************************************)
C10_OptimisticThenResolved ==
  [][/\ (lastOp'.op = "updatePhotoLocation" /\ InMemory(lastOp'.id)) =>
          LET rec == RecordOf(photos', lastOp'.id) IN
          /\ rec.latitude = lastOp'.arg[1]
          /\ rec.longitude = lastOp'.arg[2]
          /\ rec.manuallyPlaced
          /\ rec.isProcessing
          /\ rec.locationName = LOC_RESOLVING
          /\ lastOp'.tid \in DOMAIN tasks'
          /\ tasks'[lastOp'.tid].pc = "identify"
          /\ tasks'[lastOp'.tid].updated.latitude = lastOp'.arg[1]
          /\ tasks'[lastOp'.tid].updated.longitude = lastOp'.arg[2]
     /\ (lastOp'.op = "identifyLocation" /\ InMemory(lastOp'.id)) =>
          LET rec == RecordOf(photos', lastOp'.id)
              call == tasks[lastOp'.tid].updated
          IN /\ rec.locationName = lastOp'.arg[1]
             /\ ~rec.isProcessing
             /\ rec.manuallyPlaced
             /\ rec.latitude = call.latitude
             /\ rec.longitude = call.longitude]_vars

\* an enriched photo relocated and named by the service
C10_Witness ==
  /\ lastOp.op = "identifyLocation"
  /\ InMemory(lastOp.id)
  /\ "country" \in DOMAIN RecordOf(photos, lastOp.id)
  /\ RecordOf(photos, lastOp.id).locationName = "Kamakura"
  /\ ~RecordOf(photos, lastOp.id).isProcessing
  /\ RecordOf(photos, lastOp.id).manuallyPlaced
  /\ RecordOf(photos, lastOp.id).latitude = 10 * Degree

(***************************************************************************)
(* C12.  When analyzeImage returns the service's result for a submitted    *)
(* file, the record of the id has the result's locationName, country,      *)
(* latitude, longitude and description, isProcessing = false and date =    *)
(* parseSmartDate(file name, service date, file date), which for           *)
(* 20240305_trip.jpg and the service date 2024/03/10 is 2024-03-05; the    *)
(* write of that record is issued in the same step and, when it is         *)
(* executed, the durable row is that record without its url.               *)
(***************************************************************************)
DATE_TRIP == <<"2", "0", "2", "4", "-", "0", "3", "-", "0", "5">>

C12_EnrichmentSuccess ==
  [][/\ (lastOp'.op = "analyzeImage" /\ lastOp'.arg[1] = RESULT_OK) =>
          LET rec == RecordOf(photos', lastOp'.id)
              result == lastOp'.arg[1]
              file == tasks[lastOp'.tid].file
          IN /\ lastOp'.id \in PhotoIds(photos')
             /\ rec.locationName = result.locationName
             /\ rec.country = result.country
             /\ rec.latitude = result.latitude
             /\ rec.longitude = result.longitude
             /\ rec.description = result.description
             /\ ~rec.isProcessing
             /\ rec.date = parseSmartDate(file.name, result.date,
                                          DateOfStamp(file.lastModified), env)
             /\ (file.name = NAME_TRIP => rec.date = DATE_TRIP)
             /\ dbQueue'[Len(dbQueue')].op = "savePhoto"
             /\ dbQueue'[Len(dbQueue')].photo = rec
     /\ (/\ lastOp'.op = "db.savePhoto"
         /\ lastOp'.ok
         /\ tasks[lastOp'.tid].kind = "processFile"
         /\ tasks[lastOp'.tid].pc = "save2") =>
          \E row \in dbPhotos' :
            /\ row.id = lastOp'.id
            /\ "url" \notin DOMAIN row
            /\ \A f \in DOMAIN row : row[f] = Head(dbQueue).photo[f]
            /\ DOMAIN row = DOMAIN Head(dbQueue).photo \ {"url"}]_vars

\* 20240305_trip.jpg enriched with the service date 2024/03/10 and persisted
C12_Witness ==
  /\ lastOp.op = "db.savePhoto"
  /\ lastOp.ok
  /\ InMemory(lastOp.id)
  /\ RecordOf(photos, lastOp.id).name = NAME_TRIP
  /\ RecordOf(photos, lastOp.id).date = DATE_TRIP
  /\ RecordOf(photos, lastOp.id).locationName = RESULT_OK.locationName
  /\ ~RecordOf(photos, lastOp.id).isProcessing
  /\ \E row \in dbPhotos : row.id = lastOp.id /\ row.date = DATE_TRIP /\ ~row.isProcessing

(***************************************************************************)
(* C13.  When the inference call fails (analyzeImage returns its fallback  *)
(* result), the record of the id has isProcessing = false, the wrapper's   *)
(* unknown-place name and coordinates (0,0); and no handler invocation     *)
(* ever returns to the inference call: an invocation waits for             *)
(* analyzeImage only after its own provisional save.                       *)
(***************************************************************************)
C13_EnrichmentFailure ==
  [][/\ (lastOp'.op = "analyzeImage" /\ lastOp'.arg[1] = RESULT_FALLBACK) =>
          LET rec == RecordOf(photos', lastOp'.id) IN
          /\ lastOp'.id \in PhotoIds(photos')
          /\ ~rec.isProcessing
          /\ rec.locationName = "unknown place"
          /\ rec.latitude = 0
          /\ rec.longitude = 0
          /\ tasks'[lastOp'.tid].pc = "save2"
     /\ \A t \in DOMAIN tasks' :
          (tasks'[t].kind = "processFile" /\ tasks'[t].pc = "analyze") =>
             /\ t \in DOMAIN tasks
             /\ tasks[t].pc \in {"save1", "analyze"}]_vars

\* the failed enrichment is over: the record is tagged, both in memory and
\* in the durable store, and no invocation is left
C13_Witness ==
  /\ lastOp.op = "db.savePhoto"
  /\ lastOp.ok
  /\ tasks = <<>>
  /\ InMemory(lastOp.id)
  /\ RecordOf(photos, lastOp.id).locationName = "unknown place"
  /\ ~RecordOf(photos, lastOp.id).isProcessing
  /\ RecordOf(photos, lastOp.id).latitude = 0
  /\ \E row \in dbPhotos : row.id = lastOp.id /\ row.locationName = "unknown place"

(***************************************************************************)
(* C14.  A failed enrichment removes no record: after analyzeImage's       *)
(* fallback result, and after the catch of processFile, every record of    *)
(* the list is still in it and the record of the id is in it; and the      *)
(* deletion of a record tagged as failed removes its rows and then the     *)
(* record, as for any other record.                                        *)
(***************************************************************************)
FailureTagged(rec) == rec.locationName \in {"unknown place", LOC_FAILED}

C14_FailedStaysAndDeletes ==
  [][/\ ((lastOp'.op = "analyzeImage" /\ lastOp'.arg[1] = RESULT_FALLBACK)
          \/ (lastOp'.op = "db.savePhoto" /\ ~lastOp'.ok)) =>
          /\ PhotoIds(photos) \subseteq PhotoIds(photos')
          /\ (lastOp'.op = "analyzeImage" => lastOp'.id \in PhotoIds(photos'))
     /\ (/\ lastOp'.op = "db.deletePhoto"
         /\ lastOp'.ok
         /\ InMemory(lastOp'.id)
         /\ FailureTagged(RecordOf(photos, lastOp'.id))) =>
          (lastOp'.id \notin RowIds(dbPhotos') /\ tasks'[lastOp'.tid].pc = "resolved")
     /\ (/\ lastOp'.op = "deleteResolved"
         /\ InMemory(lastOp'.id)
         /\ FailureTagged(RecordOf(photos, lastOp'.id))) =>
          lastOp'.id \notin PhotoIds(photos')]_vars

\* a record tagged as failed, in the middle of its deletion: its row is gone
C14_Witness ==
  /\ lastOp.op = "db.deletePhoto"
  /\ lastOp.ok
  /\ InMemory(lastOp.id)
  /\ RecordOf(photos, lastOp.id).locationName = "unknown place"
  /\ ~RecordOf(photos, lastOp.id).isProcessing
  /\ ~InDurable(lastOp.id)

(***************************************************************************)
(* C16.  On acceptance of a file, in the step of processFile, the list     *)
(* holds a record with the id derived from name, size and lastModified,    *)
(* isProcessing = true, coordinates (0,0), manuallyPlaced = false and the  *)
(* provisional date (the file-name date if valid, else the file date), its *)
(* durable write is queued, and the invocation has not reached the         *)
(* inference call, which it reaches only when that write has succeeded.    *)
(***************************************************************************)
DATE_FILE_PHOTO == <<"2", "0", "2", "3", "-", "1", "2", "-", "3", "1">>

C16_ProvisionalFirst ==
  [][/\ (lastOp'.op = "processFile") =>
          LET rec == RecordOf(photos', lastOp'.id)
              file == tasks'[lastOp'.tid].file
          IN /\ lastOp'.id \in PhotoIds(photos')
             /\ lastOp'.id = <<"photo", file.name, file.size, file.lastModified>>
             /\ rec.isProcessing
             /\ rec.latitude = 0
             /\ rec.longitude = 0
             /\ ~rec.manuallyPlaced
             /\ (file = FILE_TRIP => rec.date = DATE_TRIP)
             /\ (file = FILE_PHOTO => rec.date = DATE_FILE_PHOTO)
             /\ dbQueue'[Len(dbQueue')].op = "savePhoto"
             /\ dbQueue'[Len(dbQueue')].photo.id = lastOp'.id
             /\ dbQueue'[Len(dbQueue')].photo.isProcessing
             /\ tasks'[lastOp'.tid].pc = "save1"
     /\ \A t \in DOMAIN tasks' :
          (/\ tasks'[t].kind = "processFile"
           /\ tasks'[t].pc = "analyze"
           /\ ~(t \in DOMAIN tasks /\ tasks[t].pc = "analyze")) =>
             /\ lastOp'.op = "db.savePhoto"
             /\ lastOp'.ok
             /\ lastOp'.tid = t
             /\ tasks[t].pc = "save1"]_vars

\* an enriched and relocated photo submitted again: provisional once more
C16_Witness ==
  /\ lastOp.op = "processFile"
  /\ RecordOf(photos, lastOp.id).isProcessing
  /\ ~RecordOf(photos, lastOp.id).manuallyPlaced
  /\ RecordOf(photos, lastOp.id).latitude = 0
  /\ "country" \in DOMAIN RecordOf(photos, lastOp.id)
  /\ tasks[lastOp.tid].pc = "save1"
  /\ \E t \in DOMAIN tasks : tasks[t].kind = "relocate"

(***************************************************************************)
(* C17.  The date of every record of the in-memory list and of every row   *)
(* of the durable photos store is a string YYYY-MM-DD of four, two and two *)
(* digits; so is every date the date resolution returns, final or          *)
(* provisional, whatever the file name, the file date, the service date    *)
(* string (that of the wrapper's fallback included) and the environment.   *)
(***************************************************************************)
IsIsoDate(s) ==
  /\ Len(s) = 10
  /\ s[5] = "-"
  /\ s[8] = "-"
  /\ \A i \in {1, 2, 3, 4, 6, 7, 9, 10} : IsDigit(s[i])

FullRecords ==
  {NewPhoto(f) : f \in Files} \cup {UpdatedPhoto(f, r, env) : f \in Files, r \in AnalysisResults}

C19_UpsertIdempotent ==
  \A r \in FullRecords :
    /\ Upsert(Upsert(photos, r), r) = Upsert(photos, r)
    /\ StorePut(StorePut(dbPhotos, DataToSave(r)), DataToSave(r)) = StorePut(dbPhotos, DataToSave(r))

\* a list and a store that hold another version of r: the first upsert
\* changes both, at a position that is not the last
C19_Witness ==
  \E r \in FullRecords :
    /\ FindIndex(photos, r.id) > 0
    /\ FindIndex(photos, r.id) < Len(photos)
    /\ Upsert(photos, r) # photos
    /\ r.id \in RowIds(dbPhotos)
    /\ StorePut(dbPhotos, DataToSave(r)) # dbPhotos

(***************************************************************************)
(* C20.  Every step of an operation for id X (upsert, enrichment           *)
(* completion, catch, relocation and its completion, deletion, note        *)
(* update, durable request) leaves every in-memory record of another id    *)
(* in the list and unchanged, and adds no record of another id.            *)
(***************************************************************************)
C20_OtherIdsUntouched ==
  [][/\ \A i \in 1..Len(photos) :
          photos[i].id # lastOp'.id =>
             /\ photos[i].id \in PhotoIds(photos')
             /\ RecordOf(photos', photos[i].id) = photos[i]
     /\ PhotoIds(photos') \subseteq PhotoIds(photos) \cup {lastOp'.id}
     /\ Len(photos') <= Len(photos) + 1]_vars

\* two photos with enrichments in flight; one has been relocated and named
\* while the other is still the provisional record
C20_Witness ==
  /\ Len(photos) = 2
  /\ lastOp.op = "identifyLocation"
  /\ InMemory(lastOp.id)
  /\ RecordOf(photos, lastOp.id).manuallyPlaced
  /\ \E i \in 1..2 :
       /\ photos[i].id # lastOp.id
       /\ photos[i].isProcessing
       /\ photos[i].locationName = LOC_ANALYZING
       /\ EnrichmentInFlight(photos[i].id)

(***************************************************************************)
(* C18.  For a file name that contains no valid YYYYMMDD date,             *)
(* parseSmartDate returns the service date, normalized to YYYY-MM-DD, if   *)
(* the service date string is non-empty, is not "Unknown", does not        *)
(* contain "..", is a calendar date after the normalization of its         *)
(* separators and has a year > 1980; otherwise it returns the file date    *)
(* formatted YYYY-MM-DD.                                                   *)
(* (The parsed date is midnight UTC read through local getters, and what   *)
(* the Date parser accepts outside the ISO format is up to the engine:     *)
(* violated.)                                                              *)
(***************************************************************************)
Normalized(aiDateStr) == BeforeSpace(ReplaceSeparators(aiDateStr))

\* year, month and day of a string Y-M-D that names a day of the calendar
IsCalendarDate(str) ==
  LET parts == SplitDash(str) IN
  /\ Len(parts) = 3
  /\ \A i \in 1..3 : Len(parts[i]) > 0 /\ AllDigits(parts[i])
  /\ Len(parts[1]) = 4
  /\ ParseInt(parts[2]) \in 1..12
  /\ ParseInt(parts[3]) >= 1
  /\ ParseInt(parts[3]) <= DaysInMonth(ParseInt(parts[1]), ParseInt(parts[2]) - 1)

\* the calendar date str written with two-digit month and day
PaddedDate(str) ==
  LET parts == SplitDash(str)
      pad(x) == IF Len(x) = 1 THEN <<"0">> \o x ELSE x
  IN parts[1] \o <<"-">> \o pad(parts[2]) \o <<"-">> \o pad(parts[3])

ServiceDateUsable(aiDateStr) ==
  /\ aiDateStr # NULL
  /\ aiDateStr # STR_UNKNOWN
  /\ ~Includes(aiDateStr, <<".", ".">>)
  /\ IsCalendarDate(Normalized(aiDateStr))
  /\ ParseInt(SplitDash(Normalized(aiDateStr))[1]) > 1980

C18_ServiceDateIff ==
  (resolve.pc = "done" /\ DatesIn(resolve.filename) = {}) =>
     resolve.result = IF ServiceDateUsable(resolve.aiDateStr)
                      THEN PaddedDate(Normalized(resolve.aiDateStr))
                      ELSE formatToISO(resolve.fileDate)

(***************************************************************************)
(* C11.  Every relocation in flight eventually completes, and at its       *)
(* completion the record, if it is still in the list, has isProcessing =   *)
(* false and the name the naming call returned (the could-not-identify     *)
(* literal when the call failed) or, when the blob read rejected, the      *)
(* could-not-identify sentinel; given that the blob read and the naming    *)
(* call return.                                                            *)
(***************************************************************************)
RelocationPending(tid) ==
  tid \in DOMAIN tasks /\ tasks[tid].kind = "relocate" /\ tasks[tid].pc = "identify"

RelocationCleared(tid) ==
  /\ lastOp.tid = tid
  /\ lastOp.op \in {"identifyLocation", "blobToBase64"}
  /\ InMemory(lastOp.id) =>
       /\ ~RecordOf(photos, lastOp.id).isProcessing
       /\ RecordOf(photos, lastOp.id).locationName =
            IF lastOp.op = "identifyLocation" THEN lastOp.arg[1] ELSE LOC_UNIDENTIFIED

C11_RelocationClears ==
  \A tid \in 1..MaxOps : RelocationPending(tid) ~> RelocationCleared(tid)

\* a relocation whose blob read rejected: sentinel name, flag cleared
C11_Witness ==
  /\ lastOp.op = "blobToBase64"
  /\ InMemory(lastOp.id)
  /\ RecordOf(photos, lastOp.id).locationName = LOC_UNIDENTIFIED
  /\ ~RecordOf(photos, lastOp.id).isProcessing
  /\ RecordOf(photos, lastOp.id).manuallyPlaced

(***************************************************************************)
(* C15.  When db.deletePhoto rejects, or the user declines the             *)
(* confirmation, the in-memory list, the note map, the modal selection     *)
(* and the focused photo are unchanged and the invocation is over, so the  *)
(* record is still in the list for another attempt.                        *)
(***************************************************************************)
C15_FailedDeleteKeepsState ==
  [][((lastOp'.op = "db.deletePhoto" /\ ~lastOp'.ok)
       \/ (lastOp'.op = "handleDeletePhoto" /\ ~lastOp'.ok)) =>
       /\ photos' = photos
       /\ diaryNotes' = diaryNotes
       /\ selectedPhotoForModal' = selectedPhotoForModal
       /\ focusedPhoto' = focusedPhoto
       /\ lastOp'.tid \notin DOMAIN tasks'
       /\ (InMemory(lastOp'.id) => lastOp'.id \in PhotoIds(photos'))]_vars

\* the durable delete of the photo shown in the modal and focused on the map
\* has been rejected: record, note, modal and focus are still there
C15_Witness ==
  /\ lastOp.op = "db.deletePhoto"
  /\ ~lastOp.ok
  /\ InMemory(lastOp.id)
  /\ lastOp.id \in DOMAIN diaryNotes
  /\ selectedPhotoForModal # NULL
  /\ selectedPhotoForModal.id = lastOp.id
  /\ focusedPhoto # NULL
  /\ focusedPhoto.id = lastOp.id

(***************************************************************************)
(* C21.  The display reference (url) is never written to durable storage:  *)
(* no row of the durable photos store has a url field, and a savePhoto     *)
(* that succeeds leaves, under the id of the record it was given, a row    *)
(* with exactly the other fields of that record and their values.          *)
(***************************************************************************)
C21_UrlNeverStored ==
  /\ [](\A row \in dbPhotos : "url" \notin DOMAIN row)
  /\ [][(/\ lastOp'.op = "db.savePhoto"
         /\ lastOp'.ok
         /\ Len(dbQueue) > 0
         /\ Head(dbQueue).op = "savePhoto") =>
          LET photo == Head(dbQueue).photo IN
          \E row \in dbPhotos' :
            /\ row.id = photo.id
            /\ DOMAIN row = DOMAIN photo \ {"url"}
            /\ \A f \in DOMAIN row : row[f] = photo[f]]_vars

\* a record that carries a url in memory has been saved, and its row is in the
\* durable store
C21_Witness ==
  /\ lastOp.op = "db.savePhoto"
  /\ lastOp.ok
  /\ InMemory(lastOp.id)
  /\ "url" \in DOMAIN RecordOf(photos, lastOp.id)
  /\ InDurable(lastOp.id)

(***************************************************************************)
(* C22.  getAllPhotos returns exactly one record per row of the durable    *)
(* photos store, each with the stored field values unchanged and a display *)
(* reference regenerated from the stored binary payload; and after a       *)
(* savePhoto of a record r has succeeded, getAllPhotos yields a record     *)
(* equal to r in every field except url.                                   *)
(***************************************************************************)
\* `loaded` is what getAllPhotos makes of `row`
LoadedFrom(loaded, row) ==
  /\ DOMAIN loaded = DOMAIN row \cup {"url"}
  /\ \A f \in DOMAIN row : loaded[f] = row[f]
  /\ loaded.url = ObjectURLOnLoad(row.fileBlob)

\* records a and b have the same fields and agree on every field but url
EqualButUrl(a, b) ==
  /\ DOMAIN a \ {"url"} = DOMAIN b \ {"url"}
  /\ \A f \in DOMAIN a \ {"url"} : a[f] = b[f]

C22_LoadReturnsRows ==
  /\ [](LET loaded == GetAllPhotos(dbPhotos) IN
        /\ Len(loaded) = Cardinality(dbPhotos)
        /\ \A row \in dbPhotos :
             \E i \in 1..Len(loaded) :
               /\ LoadedFrom(loaded[i], row)
               /\ \A j \in 1..Len(loaded) : loaded[j].id = row.id => j = i)
  /\ [][(/\ lastOp'.op = "db.savePhoto"
         /\ lastOp'.ok
         /\ Len(dbQueue) > 0
         /\ Head(dbQueue).op = "savePhoto") =>
          LET loaded == GetAllPhotos(dbPhotos') IN
          \E i \in 1..Len(loaded) : EqualButUrl(loaded[i], Head(dbQueue).photo)]_vars
  /\ [][lastOp'.op = "loadData" => photos' = GetAllPhotos(dbPhotos)]_vars

\* a session has been loaded from a store of two rows: both records are in
\* memory, with display references that are not the ones made on upload
C22_Witness ==
  /\ lastOp.op = "loadData"
  /\ Cardinality(dbPhotos) = 2
  /\ Len(photos) = 2
  /\ \A i \in 1..2 : photos[i].url = ObjectURLOnLoad(photos[i].fileBlob)
  /\ \A i \in 1..2 : photos[i].url # ObjectURL(photos[i].fileBlob)

(***************************************************************************)
(* C23.  saveNote is a keyed upsert and getAllNotes a full scan.  The note *)
(* store starts empty; a saveNote that completes makes getAllNotes map its *)
(* photo id to its text and leaves the other entries as they are; a        *)
(* deletePhoto that completes removes the entry of its id and leaves the   *)
(* others; no other step changes what getAllNotes returns; and the store   *)
(* holds one row per entry.  So getAllNotes maps each id to the text of    *)
(* the last saveNote completed for it, with one entry per id and no entry  *)
(* for an id never saved or since deleted.                                 *)
(***************************************************************************)
\* maps a and b agree on every key but id
SameButFor(a, b, id) ==
  /\ DOMAIN a \ {id} = DOMAIN b \ {id}
  /\ \A k \in DOMAIN a \ {id} : a[k] = b[k]

C23_NotesLastWriteWins ==
  /\ [](Cardinality(dbNotes) = Cardinality(DOMAIN GetAllNotes(dbNotes)))
  /\ [](lastOp.op = "init" => DOMAIN GetAllNotes(dbNotes) = {})
  /\ [][LET before == GetAllNotes(dbNotes)
            after == GetAllNotes(dbNotes')
        IN IF lastOp'.op = "db.saveNote" /\ lastOp'.ok /\ Len(dbQueue) > 0
                /\ Head(dbQueue).op = "saveNote"
           THEN /\ lastOp'.id \in DOMAIN after
                /\ after[lastOp'.id] = Head(dbQueue).note
                /\ SameButFor(before, after, lastOp'.id)
           ELSE IF lastOp'.op = "db.deletePhoto" /\ lastOp'.ok
           THEN /\ lastOp'.id \notin DOMAIN after
                /\ SameButFor(before, after, lastOp'.id)
           ELSE after = before]_vars

\* the second of two saveNote calls for the same photo has completed, and
\* getAllNotes returns the edited text for it
C23_Witness ==
  /\ lastOp.op = "db.saveNote"
  /\ lastOp.ok
  /\ nOps = 3
  /\ Len(dbQueue) = 0
  /\ Len(photos) = 1
  /\ DOMAIN GetAllNotes(dbNotes) = {lastOp.id}
  /\ GetAllNotes(dbNotes)[lastOp.id] = "memo, edited"
  /\ diaryNotes[lastOp.id] = "memo, edited"

(***************************************************************************)
(* C24.  A photo is classified as unlocated if and only if its latitude or *)
(* longitude is non-numeric or both are exactly 0, and as located          *)
(* otherwise; for every photo set the located and the unlocated photos are *)
(* disjoint and together they are the whole set.                           *)
(***************************************************************************)
\* the records of a list
Members(list) == {list[i] : i \in 1..Len(list)}

\* the classification as the claim words it
Unlocated(p) ==
  \/ p.latitude = NaN
  \/ p.longitude = NaN
  \/ (p.latitude = 0 /\ p.longitude = 0)

C24_LocatedPartition ==
  resolve.pc = "map" =>
    /\ \A p \in Members(photos) :
         /\ p \in Members(resolve.unknownPhotos) <=> Unlocated(p)
         /\ p \in Members(resolve.mappedPhotos) <=> ~Unlocated(p)
    /\ Members(resolve.unknownPhotos) \cap Members(resolve.mappedPhotos) = {}
    /\ Members(resolve.unknownPhotos) \cup Members(resolve.mappedPhotos) = Members(photos)
    /\ Len(resolve.unknownPhotos) + Len(resolve.mappedPhotos) = Len(photos)

\* the map is rendered from a list with a photo at (0, 0), one with a latitude
\* that is no number, and one with a latitude that is a number other than 0
C24_Witness ==
  /\ resolve.pc = "map"
  /\ Len(photos) = 3
  /\ photos[1].latitude = 0 /\ photos[1].longitude = 0
  /\ photos[2].latitude = NaN
  /\ photos[3].latitude = 1
  /\ Len(resolve.unknownPhotos) = 2
  /\ Len(resolve.mappedPhotos) = 1

(***************************************************************************)
(* C25.  As stated: two located photos are in the same map cluster if and  *)
(* only if their latitudes agree and their longitudes agree after rounding *)
(* to 6 decimal places; every located photo belongs to exactly one cluster *)
(* and no unlocated photo belongs to any.                                  *)
(***************************************************************************)
\* n rounded to six decimals, in millionths of a degree
Round6(n) == IF n < 0 THEN 0 - ((0 - n + 5) \div 10) ELSE (n + 5) \div 10

\* the photo's id is among the cluster's member ids
InCluster(cluster, p) == \E k \in 1..Len(cluster.photoIds) : cluster.photoIds[k] = p.id

\* some cluster has both photos
SameCluster(clusters, p, q) ==
  \E i \in 1..Len(clusters) : InCluster(clusters[i], p) /\ InCluster(clusters[i], q)

\* every located photo is in exactly one cluster, once, and no other photo is in any
ClustersPartitionLocated ==
  /\ \A p \in Members(resolve.mappedPhotos) :
       \E i \in 1..Len(resolve.clusters) :
         /\ InCluster(resolve.clusters[i], p)
         /\ \A j \in 1..Len(resolve.clusters) : InCluster(resolve.clusters[j], p) => j = i
         /\ Cardinality({k \in 1..Len(resolve.clusters[i].photoIds) :
                           resolve.clusters[i].photoIds[k] = p.id}) = 1
  /\ \A p \in Members(resolve.unknownPhotos) :
       \A i \in 1..Len(resolve.clusters) : ~InCluster(resolve.clusters[i], p)

C25_SameClusterIffRounded ==
  resolve.pc = "map" =>
    /\ \A p, q \in Members(resolve.mappedPhotos) :
         SameCluster(resolve.clusters, p, q) <=>
           /\ Round6(p.latitude) = Round6(q.latitude)
           /\ Round6(p.longitude) = Round6(q.longitude)
    /\ ClustersPartitionLocated

(***************************************************************************)
(* C27.  The range filter returns exactly the records whose date d         *)
(* satisfies start <= d <= end under string comparison, both bounds        *)
(* included, in store order; for records dated 2023-12-31, 2024-06-15 and  *)
(* 2025-01-01 and the range [2024-01-01, 2024-12-31] it returns only the   *)
(* 2024-06-15 record.                                                      *)
(***************************************************************************)
\* a YYYY-MM-DD text as the number YYYYMMDD, the empty text as 0
DateNumber(d) ==
  IF Len(d) = 0 THEN 0
  ELSE ParseInt(SubSeq(d, 1, 4)) * 10000 + ParseInt(SubSeq(d, 6, 7)) * 100
         + ParseInt(SubSeq(d, 9, 10))

\* list `sub` holds records of `list` in the order they have in `list`
InStoreOrder(sub, list) ==
  \A i, j \in 1..Len(sub) :
    i < j => /\ FindIndex(list, sub[i].id) > 0
             /\ FindIndex(list, sub[i].id) < FindIndex(list, sub[j].id)

C27_RangeFilter ==
  resolve.pc = "list" =>
    LET result == resolve.filteredPhotosByDate
        start == resolve.dateRange.start
        end == resolve.dateRange.end
    IN /\ Members(result) =
            {p \in Members(photos) :
               DateNumber(start) <= DateNumber(p.date) /\ DateNumber(p.date) <= DateNumber(end)}
       /\ Len(result) = Cardinality(Members(result))
       /\ InStoreOrder(result, photos)
       /\ (/\ Len(photos) = 3
           /\ photos[1].date = DATE_2023_12_31
           /\ photos[2].date = DATE_2024_06_15
           /\ photos[3].date = DATE_2025_01_01
           /\ start = DATE_2024_01_01
           /\ end = DATE_2024_12_31) => result = <<photos[2]>>

\* the list is rendered for a range whose bounds are the dates of the first
\* and the last of three records: all three are listed, in store order
C27_Witness ==
  /\ resolve.pc = "list"
  /\ Len(photos) = 3
  /\ photos[1].date = DATE_2023_12_31
  /\ photos[2].date = DATE_2024_06_15
  /\ photos[3].date = DATE_2024_06_15
  /\ resolve.dateRange = [start |-> DATE_2023_12_31, end |-> DATE_2024_06_15]
  /\ resolve.filteredPhotosByDate = photos

(***************************************************************************)
(* C29.  The day-grouped counts map each date string to the number of      *)
(* records in the store with that date: a date has an entry if and only if *)
(* at least one record has it, and the counts sum to the number of         *)
(* records.                                                                *)
(***************************************************************************)
\* the sum of the values of a map
RECURSIVE SumOf(_)
SumOf(counts) ==
  IF DOMAIN counts = {} THEN 0
  ELSE LET d == CHOOSE k \in DOMAIN counts : TRUE
       IN counts[d] + SumOf([k \in DOMAIN counts \ {d} |-> counts[k]])

C29_CountsByDate ==
  resolve.pc = "calendar" =>
    LET counts == resolve.photoCountsByDate IN
    /\ DOMAIN counts = {photos[i].date : i \in 1..Len(photos)}
    /\ \A d \in DOMAIN counts :
         counts[d] = Cardinality({i \in 1..Len(photos) : photos[i].date = d})
    /\ SumOf(counts) = Len(photos)

\* the calendar is rendered from three records, two of them of the same day
C29_Witness ==
  /\ resolve.pc = "calendar"
  /\ Len(photos) = 3
  /\ photos[1].date = DATE_2024_06_15
  /\ photos[2].date = DATE_2023_12_31
  /\ photos[3].date = DATE_2024_06_15
  /\ resolve.photoCountsByDate[DATE_2024_06_15] = 2
  /\ resolve.photoCountsByDate[DATE_2023_12_31] = 1
  /\ DATE_2025_01_01 \notin DOMAIN resolve.photoCountsByDate

(***************************************************************************)
(* C26.  Dragging a cluster to (lat, lng) starts a relocation for every    *)
(* member id of that cluster: right after the drag each member still in    *)
(* the store has coordinates (lat, lng), manuallyPlaced = true and a       *)
(* relocation in flight.  When the naming of one member fails (the blob    *)
(* cannot be read, or the naming call gives up), the record and the        *)
(* relocation of every other id are as before; and whenever a naming call  *)
(* returns a name, the record of its member gets that name at the          *)
(* coordinates of the drag.                                                *)
(***************************************************************************)
\* the step is the failure of a relocation's naming
NamingFailed(op) ==
  \/ op.op = "blobToBase64"
  \/ (op.op = "identifyLocation" /\ op.arg[1] = LOC_UNIDENTIFIED)

C26_DragRelocatesEachMember ==
  /\ [][lastOp'.op = "dragend" =>
          /\ \E i \in 1..Len(DrawnClusters) : DrawnClusters[i].photoIds = lastOp'.id
          /\ \A k \in 1..Len(lastOp'.id) :
               LET id == lastOp'.id[k] IN
               id \in PhotoIds(photos') =>
                 /\ RecordOf(photos', id).latitude = lastOp'.arg[1]
                 /\ RecordOf(photos', id).longitude = lastOp'.arg[2]
                 /\ RecordOf(photos', id).manuallyPlaced
                 /\ \E t \in DOMAIN tasks' \ DOMAIN tasks :
                      /\ tasks'[t].kind = "relocate"
                      /\ tasks'[t].id = id
                      /\ tasks'[t].pc = "identify"]_vars
  /\ [][NamingFailed(lastOp') =>
          /\ \A id \in PhotoIds(photos) \ {lastOp'.id} :
               /\ id \in PhotoIds(photos')
               /\ RecordOf(photos', id) = RecordOf(photos, id)
          /\ \A t \in DOMAIN tasks \ {lastOp'.tid} :
               /\ t \in DOMAIN tasks'
               /\ tasks'[t] = tasks[t]]_vars
  /\ [][(/\ lastOp'.op = "identifyLocation"
         /\ ~NamingFailed(lastOp')
         /\ lastOp'.id \in PhotoIds(photos)) =>
          /\ RecordOf(photos', lastOp'.id).locationName = lastOp'.arg[1]
          /\ RecordOf(photos', lastOp'.id).latitude = tasks[lastOp'.tid].updated.latitude
          /\ RecordOf(photos', lastOp'.id).longitude = tasks[lastOp'.tid].updated.longitude
          /\ RecordOf(photos', lastOp'.id).manuallyPlaced]_vars

\* a cluster of two has been dragged; the naming of the first member has
\* failed, and that of the second has just returned a name: both records are
\* at the coordinates of the drag
C26_Witness ==
  /\ lastOp.op = "identifyLocation"
  /\ lastOp.arg[1] = "Kamakura"
  /\ Len(photos) = 2
  /\ photos[2].id = lastOp.id
  /\ photos[2].locationName = "Kamakura"
  /\ photos[1].locationName = LOC_UNIDENTIFIED
  /\ \A i \in 1..2 :
       /\ photos[i].latitude = 10 * Degree
       /\ photos[i].longitude = 20 * Degree
       /\ photos[i].manuallyPlaced
       /\ ~photos[i].isProcessing

(***************************************************************************)
(* C28.  The single-day list for date D contains exactly the records whose *)
(* date equals D, in the order of the store, which is the order in which   *)
(* the ids were first inserted: no step changes the order of two records   *)
(* that stay in the store, whether it is an upsert, an enrichment          *)
(* completion or a relocation, and a record that is inserted comes after   *)
(* all that are there.                                                     *)
(***************************************************************************)
\* the dates of the records of a list
DatesOf(list) == {list[i].date : i \in 1..Len(list)}

EnrichmentPending(id) ==
  \E t \in DOMAIN tasks :
    /\ tasks[t].kind = "processFile"
    /\ PhotoId(tasks[t].file) = id
    /\ tasks[t].pc \in {"save1", "analyze"}

\* the naming of a relocation of id has not returned yet
RelocationInFlight(id) ==
  \E t \in DOMAIN tasks :
    /\ tasks[t].kind = "relocate"
    /\ tasks[t].id = id
    /\ tasks[t].pc = "identify"

C30_ProcessingIffInFlight ==
  \A i \in 1..Len(photos) :
    photos[i].isProcessing <=>
      (EnrichmentPending(photos[i].id) \/ RelocationInFlight(photos[i].id))

(***************************************************************************)
(* C31.  Every accepted file eventually leaves the provisional state:      *)
(* given that the file read and the inference call return, the record of   *)
(* every submitted file that is not deleted eventually has isProcessing =  *)
(* false, also when a durable write fails or the file read yields no data. *)
(***************************************************************************)
\* the record of the file is in the list and marked as processing
Provisional(file) ==
  /\ InMemory(PhotoId(file))
  /\ RecordOf(photos, PhotoId(file)).isProcessing

C31_LeavesProvisional ==
  \A file \in UploadFiles : Provisional(file) ~> ~Provisional(file)

(***************************************************************************)
(* C32.  Store changes are eventually persisted: once no upload,           *)
(* enrichment, relocation, note update or deletion is in flight and no     *)
(* durable write has failed, the durable photos store holds, for every id  *)
(* of the in-memory list, a row equal to the in-memory record in every     *)
(* field except url, and no row for any other id.                          *)
(***************************************************************************)
\* no durable request is queued and no handler is waiting for anything
NothingInFlight == Len(dbQueue) = 0 /\ DOMAIN tasks = {}

\* the durable photos store mirrors the list
Persisted ==
  /\ RowIds(dbPhotos) = PhotoIds(photos)
  /\ \A i \in 1..Len(photos) :
       \E row \in dbPhotos : row.id = photos[i].id /\ EqualButUrl(row, photos[i])

C32_EventuallyPersisted == NothingInFlight => Persisted

(***************************************************************************)
(* C33.  The completion of a relocation merges the resolved value only: it *)
(* changes the record's locationName and isProcessing and leaves every     *)
(* other field at the value the list holds at that moment, so that the     *)
(* description, country and date merged by an enrichment that completed    *)
(* while the relocation was in flight are preserved.                       *)
(***************************************************************************)
\* the step is the completion of a relocation: identifyLocation has returned,
\* or the blob read has failed
RelocationCompletes ==
  lastOp' # lastOp /\ lastOp'.op \in {"identifyLocation", "blobToBase64"}

C33_CompletionMergesNameOnly ==
  [][RelocationCompletes /\ InMemory(lastOp'.id) =>
       LET before == RecordOf(photos, lastOp'.id)
           after == RecordOf(photos', lastOp'.id)
       IN /\ DOMAIN after = DOMAIN before
          /\ \A f \in DOMAIN before \ {"locationName", "isProcessing"} : after[f] = before[f]]_vars

(***************************************************************************)
(* C34.  A record with manuallyPlaced = true keeps manuallyPlaced = true   *)
(* and the coordinates of its latest relocation for as long as it stays in *)
(* the list: an enrichment result that arrives after the relocation does   *)
(* not reset the flag or overwrite the manually set coordinates.           *)
(***************************************************************************)
\* the step is a relocation of `id`: updatePhotoLocation or a marker drag
RelocationOf(id) ==
  /\ lastOp' # lastOp
  /\ lastOp'.op \in {"updatePhotoLocation", "dragend"}
  /\ lastOp'.id = id

C34_ManualPlacementKept ==
  [][\A id \in Ids :
       (/\ InMemory(id)
        /\ RecordOf(photos, id).manuallyPlaced
        /\ id \in PhotoIds(photos')
        /\ ~RelocationOf(id))
       => /\ RecordOf(photos', id).manuallyPlaced
          /\ RecordOf(photos', id).latitude = RecordOf(photos, id).latitude
          /\ RecordOf(photos', id).longitude = RecordOf(photos, id).longitude]_vars

(***************************************************************************)
(* C35.  If a photo is deleted while a relocation of it is in flight, the  *)
(* completion of the relocation writes nothing: once the delete has        *)
(* completed, the id stays absent from the list and from the durable       *)
(* photos store through every step of the relocation.                      *)
(***************************************************************************)
\* the delete of `id` has completed: neither the list nor the store holds it
Deleted(id) == ~InMemory(id) /\ ~InDurable(id)

\* the step belongs to relocation task tid: its call returns, its blob read
\* fails, or its durable write settles
RelocationStep(tid) ==
  /\ tid \in DOMAIN tasks
  /\ tasks[tid].kind = "relocate"
  /\ lastOp' # lastOp
  /\ lastOp'.tid = tid
  /\ lastOp'.op \in {"identifyLocation", "blobToBase64", "db.savePhoto"}

C35_DeletedStaysDeleted ==
  [][\A tid \in 1..MaxOps :
       RelocationStep(tid) /\ Deleted(tasks[tid].id)
       => /\ tasks[tid].id \notin PhotoIds(photos')
          /\ tasks[tid].id \notin RowIds(dbPhotos')]_vars

(***************************************************************************)
(* C36.  A durable-write failure does not change the in-memory record:     *)
(* when savePhoto fails for the provisional write or for the enrichment    *)
(* result of an upload, the list keeps exactly the values the upsert       *)
(* applied, with no rollback and no other modification.                    *)
(***************************************************************************)
\* the step is a failed savePhoto of an upload (provisional or enriched)
UploadWriteFails ==
  /\ lastOp' # lastOp
  /\ lastOp'.op = "db.savePhoto"
  /\ ~lastOp'.ok
  /\ lastOp'.tid \in DOMAIN tasks
  /\ tasks[lastOp'.tid].kind = "processFile"

C36_WriteFailureKeepsRecord == [][UploadWriteFails => photos' = photos]_vars

(***************************************************************************)
(* C37.  Each cluster's representative name is the locationName of its     *)
(* first member in store order, its count equals the number of its member  *)
(* ids, its member ids are distinct, and the counts of all clusters sum to  *)
(* the number of located photos.                                           *)
(***************************************************************************)
\* the ids of a cluster, as a set
MemberIds(cluster) == {cluster.photoIds[k] : k \in 1..Len(cluster.photoIds)}

\* the first record of the list whose id is one of the cluster's
FirstMember(list, cluster) ==
  list[CHOOSE j \in 1..Len(list) :
         /\ list[j].id \in MemberIds(cluster)
         /\ \A k \in 1..(j - 1) : list[k].id \notin MemberIds(cluster)]

C37_ClusterSummary ==
  resolve.pc = "map" =>
    /\ \A i \in 1..Len(resolve.clusters) :
         LET cluster == resolve.clusters[i] IN
           /\ MemberIds(cluster) # {}
           /\ MemberIds(cluster) \subseteq PhotoIds(photos)
           /\ cluster.name = FirstMember(photos, cluster).locationName
           /\ cluster.count = Len(cluster.photoIds)
           /\ Cardinality(MemberIds(cluster)) = Len(cluster.photoIds)
    /\ SumOf([i \in 1..Len(resolve.clusters) |-> resolve.clusters[i].count])
         = Cardinality({j \in 1..Len(photos) : ~Unlocated(photos[j])})

\* the map shows three located photos, the first and the third in one cluster
\* and with different names, the second in a cluster of its own
C37_Witness ==
  /\ resolve.pc = "map"
  /\ Len(photos) = 3
  /\ Len(resolve.clusters) = 2
  /\ resolve.clusters[1].count = 2
  /\ resolve.clusters[1].photoIds = <<photos[1].id, photos[3].id>>
  /\ photos[1].locationName # photos[3].locationName
  /\ resolve.clusters[1].name = photos[1].locationName
  /\ resolve.clusters[2].count = 1

(***************************************************************************)
(* C38.  updatePhotoLocation for an id that is not in the list leaves the  *)
(* list and the durable store unchanged and issues no location-naming      *)
(* call: no relocation is started and no durable request is queued.        *)
(***************************************************************************)
\* the step is a call of updatePhotoLocation with an id the list lacks
RelocatesAbsent ==
  /\ nOps' = nOps + 1
  /\ lastOp'.op = "updatePhotoLocation"
  /\ ~InMemory(lastOp'.id)

C38_AbsentIdIsNoOp ==
  [][RelocatesAbsent =>
       /\ photos' = photos
       /\ dbPhotos' = dbPhotos
       /\ dbQueue' = dbQueue
       /\ tasks' = tasks]_vars

\* updatePhotoLocation has just been called with an id the list lacks, while
\* the list holds another photo
C38_Witness ==
  /\ lastOp.op = "updatePhotoLocation"
  /\ ~InMemory(lastOp.id)
  /\ Len(photos) = 1
  /\ InDurable(photos[1].id)
  /\ \A tid \in DOMAIN tasks : tasks[tid].kind # "relocate"

(***************************************************************************)
(* C39.  Every unlocated photo is placed in exactly one tray folder:       *)
(* "Analyzing..." if its isProcessing flag is true, otherwise its country  *)
(* if it has one, otherwise "Unmapped"; the folder sizes sum to the number *)
(* of unlocated photos.                                                    *)
(***************************************************************************)
\* the folder of a photo as the claim words it
FolderOf(p) ==
  IF p.isProcessing THEN "Analyzing..."
  ELSE IF "country" \in DOMAIN p /\ p.country # "" THEN p.country
  ELSE "Unmapped"

\* the indexes of the folders that hold the photo
FoldersHolding(folders, p) ==
  {i \in 1..Len(folders) : p \in Members(folders[i].photos)}

C39_TrayFolders ==
  resolve.pc = "tray" =>
    /\ \A p \in Members(photos) :
         IF Unlocated(p)
         THEN /\ Cardinality(FoldersHolding(resolve.unknownFolders, p)) = 1
              /\ \A i \in FoldersHolding(resolve.unknownFolders, p) :
                   resolve.unknownFolders[i].label = FolderOf(p)
         ELSE FoldersHolding(resolve.unknownFolders, p) = {}
    /\ \A i, j \in 1..Len(resolve.unknownFolders) :
         resolve.unknownFolders[i].label = resolve.unknownFolders[j].label => i = j
    /\ SumOf([i \in 1..Len(resolve.unknownFolders) |-> Len(resolve.unknownFolders[i].photos)])
         = Cardinality({j \in 1..Len(photos) : Unlocated(photos[j])})

\* the tray is rendered over three unlocated photos: one still processing
\* that has a country, one with a country, one without
C39_Witness ==
  /\ resolve.pc = "tray"
  /\ Len(photos) = 3
  /\ \A j \in 1..3 : Unlocated(photos[j])
  /\ photos[1].isProcessing /\ "country" \in DOMAIN photos[1] /\ photos[1].country = "Japan"
  /\ ~photos[2].isProcessing /\ "country" \in DOMAIN photos[2] /\ photos[2].country = "Japan"
  /\ ~photos[3].isProcessing /\ "country" \notin DOMAIN photos[3]
  /\ Len(resolve.unknownFolders) = 3
  /\ resolve.unknownFolders[1].label = "Analyzing..."
  /\ resolve.unknownFolders[2].label = "Japan"
  /\ resolve.unknownFolders[3].label = "Unmapped"

====
